---- MODULE Spec2Model ----
(***************************************************************************)
(* A model of go-polars' dataframe package: the in-place permutation       *)
(* engine (permutation.go), the serial and parallel radix sorts            *)
(* (radix_purego.go / radix_writer.go / radix_parallel.go), the sort key   *)
(* encoders, and the table operators SortByColumn, GroupBy and Aggregate   *)
(* (dataframe.go).                                                         *)
(*                                                                         *)
(* Go slices are modelled as functions over 0..n-1 ("arrays"), so that     *)
(* indices are the source's indices.  Machine words are scaled down: a     *)
(* sort key has KeyBits = Passes * BitsPerPass bits (64 = 8 * 8 in the     *)
(* source) and the int64 cells of a sorted column are KeyBits wide; the    *)
(* accumulators of Aggregate do IntBits-wide arithmetic and a hash word    *)
(* has HashBits bits (64 and 64 in the source).                            *)
(***************************************************************************)
EXTENDS Integers, Sequences, FiniteSets, TLC

VARIABLES
    pc,         \* position of the modelled caller: "init", "done", ...
    data,       \* permutation engine: the column array handed to inPlacePermute*
    idx,        \* permutation engine: the index array
    permuted,   \* permutation engine: the result of the routine
    keys,       \* radix engine: the unsigned key array
    ascending,  \* radix engine / sort: the direction flag
    workers,    \* runtime.GOMAXPROCS(0), fixed for one run
    indices,    \* radix engine: the returned index arrays
    heap,       \* backing arrays of the column slices, by array id
    heap0,      \* the backing arrays as they were before the modelled call
    df,         \* the receiver *DataFrame: [series, length]
    column,     \* the column name argument of the modelled call
    err,        \* the error result of the modelled call: "nil" or a message
    xx,         \* the hash xxhash.Sum64, from byte strings to hash words
    gdf,        \* the *GroupedDataFrame over df: [columns, groups]
    aggType,    \* the aggregation kind argument of the modelled call
    result,     \* the *DataFrame the modelled Aggregate call returned
    main,       \* goroutines: position of the goroutine that runs the routine
    wg,         \* goroutines: the counter of the sync.WaitGroup
    gor,        \* goroutines: position of the goroutine started for each slot
    shared,     \* goroutines: the arrays and maps the goroutines share
    accesses    \* goroutines: the reads and writes of shared cells so far

vars == <<pc, data, idx, permuted, keys, ascending, workers, indices,
          heap, heap0, df, column, err, xx, gdf, aggType, result,
          main, wg, gor, shared, accesses>>

permVars == <<data, idx, permuted>>

radixVars == <<keys, indices>>

frameVars == <<heap, heap0, df, column, err>>

groupVars == <<xx, gdf, aggType, result>>

parVars == <<main, wg, gor, shared, accesses>>

----------------------------------------------------------------------------
(* Bounds of the model.                                                    *)

\* longest array handed to the permutation engine
MaxLen == 3
\* column cells of the permutation engine are drawn from 0..MaxVal
MaxVal == 2

----------------------------------------------------------------------------
(* Arrays.                                                                 *)

len(a) == Cardinality(DOMAIN a)

Arrays(n, S) == [0..(n - 1) -> S]

ArraysUpTo(m, S) == UNION {Arrays(n, S) : n \in 0..m}

EmptyArr == [i \in {} |-> 0]

\* the array f itself, held as a table of its cells
Stored(f) == f @@ EmptyArr

IsBijection(p) ==
    /\ \A i \in DOMAIN p : p[i] \in DOMAIN p
    /\ \A i, j \in DOMAIN p : p[i] = p[j] => i = j

\* make([]int, n)
ZeroArr(n) == Stored([i \in 0..(n - 1) |-> 0])

Identity(n) == Stored([i \in 0..(n - 1) |-> i])

----------------------------------------------------------------------------
(* Values of the variables a specification does not use.                   *)

NoPermute ==
    /\ data = EmptyArr
    /\ idx = EmptyArr
    /\ permuted = [data |-> EmptyArr, visited |-> EmptyArr, swaps |-> 0]

NoRadix ==
    /\ keys = EmptyArr
    /\ indices = EmptyArr

NoFrame ==
    /\ heap = EmptyArr
    /\ heap0 = EmptyArr
    /\ df = [series |-> EmptyArr, length |-> 0]
    /\ column = ""
    /\ err = "nil"

\* no goroutine is modelled
NoPar ==
    /\ main = [pc |-> "none", pass |-> 0, w |-> 0]
    /\ wg = 0
    /\ gor = EmptyArr
    /\ shared = EmptyArr
    /\ accesses = {}

NoResult == [series |-> EmptyArr, length |-> 0]

\* a nil map
NilGroups == [isNil |-> TRUE, m |-> EmptyArr]

NoGroup ==
    /\ xx = EmptyArr
    /\ gdf = [columns |-> <<>>, groups |-> NilGroups]
    /\ aggType = ""
    /\ result = NoResult

----------------------------------------------------------------------------
(* permutation.go: the in-place permutation engine.  A run of the routine  *)
(* is the record [data, visited, swaps]: the array, the visited marks and  *)
(* the number of executed swap statements.                                 *)

\* line 17: data[j], data[k] = data[k], data[j]
SwapCells(a, j, k) == [a EXCEPT ![j] = a[k], ![k] = a[j]]

\* lines 11-19: `for !visited[j] { visited[j] = true; k := idx[j];
\*               if k == j { break }; swap; j = k }`
RECURSIVE FollowCycle(_, _, _)
FollowCycle(st, ix, j) ==
    IF st.visited[j] THEN st
    ELSE LET marked == [st EXCEPT !.visited[j] = TRUE]
             k == ix[j]
         IN  IF k = j THEN marked
             ELSE FollowCycle([marked EXCEPT !.data = SwapCells(marked.data, j, k),
                                             !.swaps = marked.swaps + 1],
                              ix, k)

\* lines 6-20: `for i := 0; i < len(data); i++ { if visited[i] || idx[i] == i
\*              { continue }; j := i; <inner loop> }`
RECURSIVE PermuteFrom(_, _, _)
PermuteFrom(st, ix, i) ==
    IF i >= len(st.data) THEN st
    ELSE IF st.visited[i] \/ ix[i] = i THEN PermuteFrom(st, ix, i + 1)
    ELSE PermuteFrom(FollowCycle(st, ix, i), ix, i + 1)

\* lines 4-21: visited := make([]bool, len(data)), then the loops
inPlacePermuteRun(d, ix) ==
    PermuteFrom([data |-> d,
                 visited |-> [i \in DOMAIN d |-> FALSE],
                 swaps |-> 0], ix, 0)

\* The four routines are the same text over four element types.
inPlacePermuteInt64(d, ix) == inPlacePermuteRun(d, ix).data

inPlacePermuteFloat64(d, ix) == inPlacePermuteRun(d, ix).data

inPlacePermuteString(d, ix) == inPlacePermuteRun(d, ix).data

inPlacePermuteBool(d, ix) == inPlacePermuteRun(d, ix).data

----------------------------------------------------------------------------
(* Machine words.                                                          *)

\* bits per radix digit (bitsPerPass; 8 in the source, scaled down)
BitsPerPass == 2
\* number of radix passes (passes = 64 / bitsPerPass; 8 in the source)
Passes == 2
\* the parallel radix sort is used from this length on (1 << 15 in the source)
RadixParallelMin == 2
\* radix keys are drawn from 0..MaxKey
MaxKey == 4

\* buckets = 1 << bitsPerPass
Buckets == 2 ^ BitsPerPass

\* width of a sort key, and of an int64 / float64 cell
KeyBits == Passes * BitsPerPass

\* the values runtime.GOMAXPROCS(0) takes in the model
WorkerCounts == {1, 2, 8}

Min(a, b) == IF a < b THEN a ELSE b

RECURSIVE BitXor(_, _, _)
BitXor(a, b, n) ==
    IF n = 0 THEN 0
    ELSE (((a % 2) + (b % 2)) % 2) + 2 * BitXor(a \div 2, b \div 2, n - 1)

----------------------------------------------------------------------------
(* radix_purego.go (serial) : radixSortUint64Keys.                         *)

\* (keys[idx] >> shift) & 0xFF, with shift = pass * bitsPerPass
Digit(key, pass) == (key \div (2 ^ (pass * BitsPerPass))) % Buckets

ZeroCounts == Stored([b \in 0..(Buckets - 1) |-> 0])

\* histogram loop over indices[s .. e-1]: counts[b]++
RECURSIVE Histogram(_, _, _, _, _, _)
Histogram(counts, ks, ind, pass, i, e) ==
    IF i >= e THEN counts
    ELSE LET b == Digit(ks[ind[i]], pass)
         IN  Histogram([counts EXCEPT ![b] = counts[b] + 1], ks, ind, pass, i + 1, e)

\* ascending prefix scan: for i := 0; i < buckets; i++ { c := counts[i];
\* counts[i] = sum; sum += c }
RECURSIVE ScanAscending(_, _, _)
ScanAscending(counts, i, sum) ==
    IF i >= Buckets THEN counts
    ELSE ScanAscending([counts EXCEPT ![i] = sum], i + 1, sum + counts[i])

\* descending prefix scan: for i := buckets - 1; i >= 0; i-- { ... }
RECURSIVE ScanDescending(_, _, _)
ScanDescending(counts, i, sum) ==
    IF i < 0 THEN counts
    ELSE ScanDescending([counts EXCEPT ![i] = sum], i - 1, sum + counts[i])

\* mutant of PrefixScan: the direction flag is ignored
PrefixScanIgnoresDirection(counts, asc) == ScanAscending(counts, 0, 0)

PrefixScan(counts, asc) ==
    IF asc THEN ScanAscending(counts, 0, 0)
    ELSE ScanDescending(counts, Buckets - 1, 0)

\* mutant of Scatter: the bucket offset is not advanced after a write
RECURSIVE ScatterNoAdvance(_, _, _, _, _, _)
ScatterNoAdvance(st, ks, ind, pass, i, e) ==
    IF i >= e THEN st
    ELSE LET id == ind[i]
             b == Digit(ks[id], pass)
             pos == st.counts[b]
         IN  ScatterNoAdvance([tmp |-> [st.tmp EXCEPT ![pos] = id],
                               counts |-> st.counts],
                              ks, ind, pass, i + 1, e)

\* scatter loop over indices[s .. e-1]: pos := counts[b]; tmp[pos] = idx;
\* counts[b]++.  The loop state is [tmp, counts].
RECURSIVE Scatter(_, _, _, _, _, _)
Scatter(st, ks, ind, pass, i, e) ==
    IF i >= e THEN st
    ELSE LET id == ind[i]
             b == Digit(ks[id], pass)
             pos == st.counts[b]
         IN  Scatter([tmp |-> [st.tmp EXCEPT ![pos] = id],
                      counts |-> [st.counts EXCEPT ![b] = pos + 1]],
                     ks, ind, pass, i + 1, e)

\* one pass of the serial sort; the buffers are [indices, tmp]
SerialPass(buf, ks, asc, pass) ==
    LET n == len(ks)
        hist == Histogram(ZeroCounts, ks, buf.indices, pass, 0, n)
        offs == PrefixScan(hist, asc)
        sc == Scatter([tmp |-> buf.tmp, counts |-> offs], ks, buf.indices, pass, 0, n)
    IN  [indices |-> sc.tmp, tmp |-> sc.tmp]    \* copy(indices, tmp)

RECURSIVE SerialPasses(_, _, _, _)
SerialPasses(buf, ks, asc, pass) ==
    IF pass >= Passes THEN buf
    ELSE SerialPasses(SerialPass(buf, ks, asc, pass), ks, asc, pass + 1)

radixSortUint64Keys(ks, asc) ==
    LET n == len(ks)
    IN  SerialPasses([indices |-> Identity(n), tmp |-> ZeroArr(n)],
                     ks, asc, 0).indices

----------------------------------------------------------------------------
(* radix_writer.go : radixSortUint64KeysParallel.  The workers of one      *)
(* phase touch disjoint data, so a phase is computed worker by worker.     *)

\* shardSize := (n + workers - 1) / workers
ShardSize(n, w) == (n + w - 1) \div w

ShardStart(n, w, slot) == slot * ShardSize(n, w)

\* end := start + shardSize; if end > n { end = n }
ShardEnd(n, w, slot) == Min(ShardStart(n, w, slot) + ShardSize(n, w), n)

\* counts[w]: the histogram of shard w (left zero when start >= end)
ShardCounts(ks, ind, pass, w) ==
    Stored([slot \in 0..(w - 1) |->
        Histogram(ZeroCounts, ks, ind, pass,
                  ShardStart(len(ks), w, slot), ShardEnd(len(ks), w, slot))])

\* sum over slots 0 .. upto-1 of counts[slot][b]
RECURSIVE SumCounts(_, _, _)
SumCounts(counts, b, upto) ==
    IF upto = 0 THEN 0 ELSE counts[upto - 1][b] + SumCounts(counts, b, upto - 1)

\* global[b] after the prefix sum (always scanned low to high)
GlobalOffsets(counts, w) ==
    ScanAscending(Stored([b \in 0..(Buckets - 1) |-> SumCounts(counts, b, w)]), 0, 0)

\* every shard is given the start of the bucket
PreOffsetsOfBucket(counts, w) ==
    LET global == GlobalOffsets(counts, w)
    IN  Stored([slot \in 0..(w - 1) |-> Stored([b \in 0..(Buckets - 1) |-> global[b]])])

\* preOffsets[slot][b] = global[b] + counts of the earlier shards
PreOffsets(counts, w) ==
    LET global == GlobalOffsets(counts, w)
    IN  Stored([slot \in 0..(w - 1) |->
            Stored([b \in 0..(Buckets - 1) |-> global[b] + SumCounts(counts, b, slot)])])

\* the scatter goroutine of every slot: the shared tmp with the writes of
\* that goroutine alone, and its localOffsets when it is done
ScatterWorkers(tmp, pre, ks, ind, pass, w) ==
    Stored([slot \in 0..(w - 1) |->
        Scatter([tmp |-> tmp, counts |-> pre[slot]], ks, ind, pass,
                ShardStart(len(ks), w, slot), ShardEnd(len(ks), w, slot))])

\* the goroutine of `slot` has written tmp[pos]
Wrote(pre, done, slot, pos) ==
    \E b \in 0..(Buckets - 1) : pre[slot][b] <= pos /\ pos < done[slot].counts[b]

\* tmp after wg.Wait(): every cell holds what the goroutine that wrote it
\* stored there, and its old content when no goroutine wrote it
ScatterShards(tmp, pre, ks, ind, pass, w) ==
    LET done == ScatterWorkers(tmp, pre, ks, ind, pass, w)
    IN  Stored([pos \in DOMAIN tmp |->
            IF \E slot \in 0..(w - 1) : Wrote(pre, done, slot, pos)
            THEN done[CHOOSE slot \in 0..(w - 1) : Wrote(pre, done, slot, pos)].tmp[pos]
            ELSE tmp[pos]])

ParallelPass(buf, ks, pass, w) ==
    LET counts == ShardCounts(ks, buf.indices, pass, w)
        pre == PreOffsets(counts, w)
        out == ScatterShards(buf.tmp, pre, ks, buf.indices, pass, w)
    IN  [indices |-> out, tmp |-> buf.indices]    \* indices, tmp = tmp, indices

RECURSIVE ParallelPasses(_, _, _, _)
ParallelPasses(buf, ks, pass, w) ==
    IF pass >= Passes THEN buf
    ELSE ParallelPasses(ParallelPass(buf, ks, pass, w), ks, pass + 1, w)

\* for i, j := 0, n-1; i < j; i, j = i+1, j-1 { swap }
Reverse(a) == Stored([i \in DOMAIN a |-> a[len(a) - 1 - i]])

radixSortUint64KeysParallel(ks, asc, w) ==
    LET n == len(ks)
    IN  IF n <= 1 THEN Identity(n)
        ELSE IF w < 2 \/ n < RadixParallelMin THEN radixSortUint64Keys(ks, asc)
        ELSE LET sorted == ParallelPasses(
                               [indices |-> Identity(n), tmp |-> ZeroArr(n)],
                               ks, 0, w).indices
             IN  IF asc THEN sorted ELSE Reverse(sorted)

\* radix_parallel.go
ParallelRadixSortUint64(ks, asc, w) ==
    LET n == len(ks)
    IN  IF n <= 1 THEN Identity(n)
        ELSE IF w < 2 \/ n < RadixParallelMin THEN radixSortUint64Keys(ks, asc)
        ELSE radixSortUint64KeysParallel(ks, asc, w)

----------------------------------------------------------------------------
(* SpecRadix: a caller that runs the three radix entry points, one after   *)
(* the other, on every small key array, both directions and every worker   *)
(* count.                                                                  *)

NotRun == [ran |-> FALSE, out |-> EmptyArr]

InitRadix ==
    /\ pc = "init"
    /\ keys \in ArraysUpTo(MaxLen, 0..MaxKey)
    /\ ascending \in BOOLEAN
    /\ workers \in WorkerCounts
    /\ indices = [serial |-> NotRun, parallel |-> NotRun, entry |-> NotRun]
    /\ NoPermute
    /\ NoFrame
    /\ NoGroup
    /\ NoPar

RunSerial ==
    /\ pc = "init"
    /\ pc' = "serial"
    /\ indices' = [indices EXCEPT
                     !.serial = [ran |-> TRUE, out |-> radixSortUint64Keys(keys, ascending)]]
    /\ UNCHANGED <<permVars, frameVars, groupVars, keys, ascending, workers>>
    /\ UNCHANGED parVars

RunParallel ==
    /\ pc = "serial"
    /\ pc' = "parallel"
    /\ indices' = [indices EXCEPT
                     !.parallel = [ran |-> TRUE,
                                   out |-> radixSortUint64KeysParallel(keys, ascending, workers)]]
    /\ UNCHANGED <<permVars, frameVars, groupVars, keys, ascending, workers>>
    /\ UNCHANGED parVars

RunEntry ==
    /\ pc = "parallel"
    /\ pc' = "done"
    /\ indices' = [indices EXCEPT
                     !.entry = [ran |-> TRUE,
                                out |-> ParallelRadixSortUint64(keys, ascending, workers)]]
    /\ UNCHANGED <<permVars, frameVars, groupVars, keys, ascending, workers>>
    /\ UNCHANGED parVars

NextRadix == RunSerial \/ RunParallel \/ RunEntry

SpecRadix == InitRadix /\ [][NextRadix]_vars

\* p orders ks in the requested direction
OrdersKeys(p, ks, asc) ==
    \A i \in DOMAIN p : \A j \in DOMAIN p :
        i < j => IF asc THEN ks[p[i]] <= ks[p[j]] ELSE ks[p[i]] >= ks[p[j]]

\* ties appear in increasing original position
TiesByPosition(p, ks) ==
    \A i \in DOMAIN p : \A j \in DOMAIN p :
        (i < j /\ ks[p[i]] = ks[p[j]]) => p[i] < p[j]

\* the parallel code path proper was taken (no fallback)
TookParallelPath == len(keys) >= RadixParallelMin /\ len(keys) > 1 /\ workers >= 2

\* C7: the serial radix sort returns an index array that orders the keys
\* (non-decreasing when ascending, non-increasing when descending) and
\* breaks ties by original position, in both directions.
C7_SerialRadixSortedAndStable ==
    indices.serial.ran =>
        /\ DOMAIN indices.serial.out = DOMAIN keys
        /\ OrdersKeys(indices.serial.out, keys, ascending)
        /\ TiesByPosition(indices.serial.out, keys)

\* C7 witness: a descending serial sort of an array with a tie and with
\* keys that differ in the high digit only.
C7_Witness ==
    /\ indices.serial.ran
    /\ ~ascending
    /\ len(keys) = MaxLen
    /\ \E i, j \in DOMAIN keys : i < j /\ keys[i] = keys[j]
    /\ \E i, j \in DOMAIN keys : keys[i] < keys[j] /\ Digit(keys[i], 0) > Digit(keys[j], 0)

\* C8: the parallel radix variant is stable in both directions and returns
\* exactly the permutation the serial algorithm returns.
C8_ParallelRadixStableLikeSerial ==
    (indices.parallel.ran /\ indices.serial.ran) =>
        /\ TiesByPosition(indices.parallel.out, keys)
        /\ indices.parallel.out = indices.serial.out

----------------------------------------------------------------------------
(* Cells.  An int64 cell is a KeyBits-wide two's complement integer.  A    *)
(* float64 cell is its bit pattern, sign bit on top of the magnitude bits; *)
(* the patterns of the model all stand for finite numbers, whose order is  *)
(* the order of their sign-magnitude values.  A string cell is its         *)
(* sequence of bytes.                                                      *)

\* int64 cells of the tables are drawn from -MaxAbs..MaxAbs
MaxAbs == 2
\* float64 cells of the tables have magnitude bits 0..MaxMag, either sign
MaxMag == 1

\* 0x8000000000000000
SignBit == 2 ^ (KeyBits - 1)

\* 0xFFFFFFFFFFFFFFFF
AllOnes == (2 ^ KeyBits) - 1

Int64Vals == (-SignBit)..(SignBit - 1)

DataTypes == {"Int64", "Float64", "String", "Boolean"}

StrVals == {<<>>, <<97>>, <<97, 98>>, <<98>>}

CellVals(dt) ==
    CASE dt = "Int64" -> (-MaxAbs)..MaxAbs
      [] dt = "Float64" -> {sg * SignBit + m : sg \in {0, 1}, m \in 0..MaxMag}
      [] dt = "String" -> StrVals
      [] dt = "Boolean" -> BOOLEAN

\* uint64(v)
ToUint64(v) == v % (2 ^ KeyBits)

\* mutant of Int64SortKey: the sign bit is not flipped
Int64SortKeyNoBias(v) == ToUint64(v)

\* dataframe.go:192  keys[i] = uint64(v) ^ 0x8000000000000000
Int64SortKey(v) == BitXor(ToUint64(v), SignBit, KeyBits)

\* mutant of Float64SortKey: the sign bit is flipped whatever the sign
Float64SortKeyFlipsOnly(bits) == BitXor(bits, SignBit, KeyBits)

\* dataframe.go:198-203  if bits>>63 == 0 { bits ^ 0x8000... } else { ^bits }
Float64SortKey(bits) ==
    IF bits \div SignBit = 0 THEN BitXor(bits, SignBit, KeyBits)
    ELSE BitXor(bits, AllOnes, KeyBits)

\* the number a (finite) float64 bit pattern stands for, up to the order
FloatValue(bits) == IF bits >= SignBit THEN -(bits - SignBit) ELSE bits

\* Go's < on strings: bytewise lexicographic
RECURSIVE StrLess(_, _)
StrLess(a, b) ==
    IF b = <<>> THEN FALSE
    ELSE IF a = <<>> THEN TRUE
    ELSE IF Head(a) < Head(b) THEN TRUE
    ELSE IF Head(a) > Head(b) THEN FALSE
    ELSE StrLess(Tail(a), Tail(b))

\* value(c, i) <= value(c, j) in the column's type (false < true for bool)
CellLeq(dt, a, b) ==
    CASE dt = "Int64" -> a <= b
      [] dt = "Float64" -> FloatValue(a) <= FloatValue(b)
      [] dt = "String" -> ~StrLess(b, a)
      [] dt = "Boolean" -> (a => b)

----------------------------------------------------------------------------
(* dataframe.go: tables.  A *types.Series is [DataType, Data, Length];     *)
(* Data is the id of the backing array in `heap`, of which the slice       *)
(* covers the first Length cells.  A *DataFrame is [series, length].       *)

NewSeries(dt, arr, n) == [DataType |-> dt, Data |-> arr, Length |-> n]

\* the slice s.Data
SliceOf(h, s) == Stored([i \in 0..(s.Length - 1) |-> h[s.Data][i]])

\* the backing array of s with the cells of the slice replaced by d
WriteSlice(h, s, d) ==
    [h EXCEPT ![s.Data] = [i \in DOMAIN @ |-> IF i < s.Length THEN d[i] ELSE @[i]]]

IndexPermutations(n) == {p \in Arrays(n, 0..(n - 1)) : IsBijection(p)}

\* lines 207-212 and 214-219: the less function handed to sort.Slice
SliceLess(dt, asc, a, b) ==
    CASE dt = "String" -> IF asc THEN StrLess(a, b) ELSE StrLess(b, a)
      [] dt = "Boolean" -> IF asc THEN (~a /\ b) ELSE (a /\ ~b)

\* sort.Slice is not stable: it leaves indices in some order in which no
\* later element is less than an earlier one
SortSliceResults(dt, asc, d) ==
    {p \in IndexPermutations(len(d)) :
        \A i \in DOMAIN p : \A j \in DOMAIN p :
            i < j => ~SliceLess(dt, asc, d[p[j]], d[p[i]])}

\* lines 189-205: the keys of a numeric column
SortKeys(dt, d) ==
    Stored([i \in DOMAIN d |->
        IF dt = "Int64" THEN Int64SortKey(d[i]) ELSE Float64SortKey(d[i])])

\* lines 181-222: the index slices the type switch can leave in `indices`
SortIndices(dt, asc, d, w) ==
    IF dt \in {"Int64", "Float64"}
    THEN {ParallelRadixSortUint64(SortKeys(dt, d), asc, w)}
    ELSE SortSliceResults(dt, asc, d)

\* an index expression of inPlacePermute* is out of range: idx[i] for some
\* i < len(data), or data[idx[i]]
PermutePanics(d, ind) ==
    \E i \in DOMAIN d : i \notin DOMAIN ind \/ ind[i] \notin DOMAIN d

\* a type switch that has a case for []int64 only
PermuteSeriesInt64Only(h, s, ind) ==
    IF s.DataType = "Int64"
    THEN WriteSlice(h, s, inPlacePermuteInt64(SliceOf(h, s), ind))
    ELSE h

\* lines 226-235: the type switch over the four routines
PermuteSeries(h, s, ind) ==
    LET d == SliceOf(h, s)
        nd == CASE s.DataType = "Int64" -> inPlacePermuteInt64(d, ind)
                [] s.DataType = "Float64" -> inPlacePermuteFloat64(d, ind)
                [] s.DataType = "String" -> inPlacePermuteString(d, ind)
                [] s.DataType = "Boolean" -> inPlacePermuteBool(d, ind)
    IN  WriteSlice(h, s, nd)

\* lines 225-236: for _, s := range df.series { ... }
RECURSIVE PermuteColumns(_, _, _, _)
PermuteColumns(h, frame, names, ind) ==
    IF names = {} THEN h
    ELSE LET nm == CHOOSE x \in names : TRUE
         IN  PermuteColumns(PermuteSeries(h, frame.series[nm], ind),
                            frame, names \ {nm}, ind)

ColumnNames == {"x", "row"}

\* the table {x: cells (of type dt), row: 0, 1, ..., n-1}
SortTable(dt, cells) ==
    /\ heap = [a \in 0..1 |-> IF a = 0 THEN cells ELSE Identity(len(cells))]
    /\ df = [series |-> [nm \in ColumnNames |->
                            IF nm = "x" THEN NewSeries(dt, 0, len(cells))
                            ELSE NewSeries("Int64", 1, len(cells))],
             length |-> len(cells)]

SeqToArr(sq) == [i \in 0..(Len(sq) - 1) |-> sq[i + 1]]

\* spec section 8, second concrete scenario
ScenarioX == SeqToArr(<<5, -3, 0, 2, -1>>)

Init ==
    /\ pc = "init"
    /\ \/ \E dt \in DataTypes : \E cells \in ArraysUpTo(MaxLen, CellVals(dt)) :
              SortTable(dt, cells)
       \/ SortTable("Int64", ScenarioX)
    /\ heap0 = heap
    /\ workers \in WorkerCounts
    /\ column = ""
    /\ ascending = TRUE
    /\ err = "nil"
    /\ keys = EmptyArr
    /\ indices = EmptyArr
    /\ NoPermute
    /\ NoGroup
    /\ NoPar

\* SortByColumn on a column the table does not have (lines 176-179)
SortByColumnNotFound(col) ==
    /\ pc = "init"
    /\ col \notin DOMAIN df.series
    /\ column' = col
    /\ err' = "column not found"
    /\ pc' = "done"
    /\ UNCHANGED <<heap, heap0, df, ascending, workers, keys, indices, permVars, groupVars>>
    /\ UNCHANGED parVars

\* SortByColumn (lines 175-240)
SortByColumn(col, asc) ==
    /\ pc = "init"
    /\ col \in DOMAIN df.series
    /\ LET s == df.series[col]
           d == SliceOf(heap, s)
       IN  /\ keys' = IF s.DataType \in {"Int64", "Float64"}
                      THEN SortKeys(s.DataType, d) ELSE EmptyArr
           /\ \E ind \in SortIndices(s.DataType, asc, d, workers) :
                 /\ indices' = ind
                 /\ IF \E nm \in DOMAIN df.series :
                          PermutePanics(SliceOf(heap, df.series[nm]), ind)
                    THEN /\ err' = "panic"
                         /\ heap' = heap
                    ELSE /\ err' = "nil"
                         /\ heap' = PermuteColumns(heap, df, DOMAIN df.series, ind)
    /\ column' = col
    /\ ascending' = asc
    /\ pc' = "done"
    /\ UNCHANGED <<heap0, df, workers, permVars, groupVars>>
    /\ UNCHANGED parVars

Next ==
    \/ \E col \in ColumnNames : \E asc \in BOOLEAN : SortByColumn(col, asc)
    \/ SortByColumnNotFound("missing")

Spec == Init /\ [][Next]_vars

\* the cells of column nm of the table
ColumnData(h, frame, nm) == SliceOf(h, frame.series[nm])

SortReturned == pc = "done" /\ err = "nil"

\* C1: after SortByColumn(c, ascending) returns without error, column c is
\* non-decreasing (ascending) or non-increasing (descending); x =
\* [5,-3,0,2,-1] sorted ascending becomes [-3,-1,0,2,5].
C1_SortByColumnOrdersColumn ==
    SortReturned =>
        LET d == ColumnData(heap, df, column)
            dt == df.series[column].DataType
        IN  /\ \A i \in DOMAIN d :
                 (i + 1) \in DOMAIN d =>
                     IF ascending THEN CellLeq(dt, d[i], d[i + 1])
                     ELSE CellLeq(dt, d[i + 1], d[i])
            /\ (ColumnData(heap0, df, "x") = ScenarioX /\ column = "x" /\ ascending)
                   => d = SeqToArr(<<-3, -1, 0, 2, 5>>)

\* the columns of the table have pairwise distinct backing arrays
DistinctArrays(frame) ==
    \A a, b \in DOMAIN frame.series :
        frame.series[a].Data = frame.series[b].Data => a = b

\* the complete row at position i of the table over the heap h
RowAt(h, frame, i) == [nm \in DOMAIN frame.series |-> ColumnData(h, frame, nm)[i]]

\* C13: for a table whose columns have pairwise distinct backing arrays,
\* after SortByColumn returns the row count and the column names are those
\* of before, and one rearrangement p of the positions gives every column:
\* the row now at position i is the complete row that was at p[i], so the
\* multiset of complete rows is unchanged.
C13_SortByColumnKeepsRows ==
    (SortReturned /\ DistinctArrays(df)) =>
        /\ \A nm \in DOMAIN df.series :
               len(ColumnData(heap, df, nm)) = df.length
        /\ DOMAIN heap = DOMAIN heap0
        /\ \E p \in IndexPermutations(df.length) :
               \A i \in DOMAIN p : RowAt(heap, df, i) = RowAt(heap0, df, p[i])

\* C13 witness: a sort has moved the rows of a table of three rows with a
\* tie in the sort column.
C13_Witness ==
    /\ SortReturned /\ DistinctArrays(df)
    /\ df.length = 3
    /\ column = "x"
    /\ ColumnData(heap0, df, "x")[0] = ColumnData(heap0, df, "x")[1]
    /\ ColumnData(heap, df, "row") # ColumnData(heap0, df, "row")
    /\ ColumnData(heap, df, "x") # ColumnData(heap0, df, "x")

\* the cells d of type dt are in non-decreasing order
NonDecreasing(dt, d) ==
    \A i \in DOMAIN d : (i + 1) \in DOMAIN d => CellLeq(dt, d[i], d[i + 1])

\* the sort column was in non-decreasing order before an ascending sort
SortedBefore ==
    /\ SortReturned /\ ascending
    /\ NonDecreasing(df.series[column].DataType, ColumnData(heap0, df, column))

\* the first part of C19 alone: the in-place routines applied with the
\* identity permutation leave every column as it was
C19_IdentityLeavesColumns ==
    (SortReturned /\ indices = Identity(df.length)) => heap = heap0

\* C19: the in-place routines applied with the identity permutation leave
\* every column unchanged, and so SortByColumn ascending on a column that
\* is already in non-decreasing order leaves the whole table unchanged.
C19_SortedInputUnchanged ==
    /\ (SortReturned /\ indices = Identity(df.length)) => heap = heap0
    /\ SortedBefore => heap = heap0

\* the radix engine was used: the sort column is numeric
RadixSorted == SortReturned /\ df.series[column].DataType \in {"Int64", "Float64"}

\* C9: the index array returned by ParallelRadixSortUint64 (serial or
\* parallel path) has length N and holds every index in [0, N) exactly
\* once; for N = 0 it is empty and SortByColumn on an empty table succeeds.
C9_RadixReturnsBijection ==
    (pc = "done" /\ column \in DOMAIN df.series
        /\ df.series[column].DataType \in {"Int64", "Float64"}) =>
        /\ len(keys) = df.length
        /\ DOMAIN indices = DOMAIN keys
        /\ IsBijection(indices)
        /\ err = "nil"
        /\ df.length = 0 => indices = EmptyArr

\* C9 witness: the parallel path proper has sorted a column with a tie.
C9_Witness ==
    /\ RadixSorted
    /\ workers >= 2
    /\ len(keys) >= RadixParallelMin
    /\ len(keys) = MaxLen
    /\ \E i, j \in DOMAIN keys : i # j /\ keys[i] = keys[j]
    /\ IsBijection(indices)

----------------------------------------------------------------------------
(* dataframe.go: GroupBy and Aggregate.  The accumulators do int64         *)
(* arithmetic, which wraps at 2^IntBits here (2^64 in the source).  The    *)
(* hash xxhash.Sum64 is a library function the package treats as a black   *)
(* box: it is the variable xx, some function from byte strings to          *)
(* HashBits-wide words that does not change during a run.                  *)

\* width of an int64 in the accumulators (64 in the source)
IntBits == 8
\* width of a hash word and of each half of a key128 (64 in the source)
HashBits == 3
\* most rows of the enumerated tables that are grouped
GroupRows == 2
\* the row count from which aggregateStreaming shards (50000 in the source)
AggParallelMin == 2

MinInt64 == -(2 ^ (IntBits - 1))

MaxInt64 == (2 ^ (IntBits - 1)) - 1

\* the int64 that the exact result x of an int64 operation wraps to
WrapInt64(x) == ((x - MinInt64) % (2 ^ IntBits)) + MinInt64

\* Go's a / b on int64 for b > 0: the quotient truncated toward zero
TruncDiv(a, b) == IF a >= 0 THEN a \div b ELSE -((-a) \div b)

AggregationTypes == {"Sum", "Mean", "Count", "Min", "Max"}

\* binary.LittleEndian.PutUint64(buf[:], u): the bytes of the buffer, low
\* byte first (two bytes hold every word of the model)
PutUint64(u) == <<u % 256, u \div 256>>

\* the bytes handed to the hash for one cell of a grouping column
CellBytes(dt, v) ==
    CASE dt = "Int64" -> PutUint64(v % (2 ^ IntBits))
      [] dt = "Float64" -> PutUint64(v)
      [] dt = "String" -> v
      [] dt = "Boolean" -> PutUint64(IF v THEN 1 ELSE 0)

\* bits.RotateLeft64(x, s) for 0 <= s < HashBits
RotateLeft64(x, s) == ((x * (2 ^ s)) % (2 ^ HashBits)) + (x \div (2 ^ (HashBits - s)))

\* the loop over the grouping columns, from column number colIdx on
RECURSIVE Key128From(_, _, _, _, _, _)
Key128From(h, frame, columns, row, colIdx, k) ==
    IF colIdx >= Len(columns) THEN k
    ELSE LET s == frame.series[columns[colIdx + 1]]
             hv == xx[CellBytes(s.DataType, h[s.Data][row])]
             shift == (colIdx * 11) % HashBits
             rot == RotateLeft64(hv, shift)
         IN  Key128From(h, frame, columns, row, colIdx + 1,
                 IF colIdx % 2 = 0
                 THEN [k EXCEPT !.hi = BitXor(@, rot, HashBits)]
                 ELSE [k EXCEPT !.lo = BitXor(@, rot, HashBits)])

\* the key128 of a row; aggregateStreaming repeats this text inline
buildKey128(h, frame, columns, row) ==
    Key128From(h, frame, columns, row, 0, [hi |-> 0, lo |-> 0])

\* st = &int64State{min: v, max: v, rep: i}
NewInt64State(v, i) == [sum |-> 0, min |-> v, max |-> v, count |-> 0, rep |-> i]

\* mutant of AccumulateRow: the count is set, not advanced
AccumulateRowCountsOnce(m, k, v, i, kind) ==
    LET st == IF k \in DOMAIN m THEN m[k] ELSE NewInt64State(v, i)
    IN  (k :> [sum |-> IF kind \in {"Sum", "Mean"}
                       THEN WrapInt64(st.sum + v) ELSE st.sum,
               min |-> IF v < st.min THEN v ELSE st.min,
               max |-> IF v > st.max THEN v ELSE st.max,
               count |-> 1,
               rep |-> st.rep]) @@ m

\* one turn of the accumulate loop: row i, with key k and value v
AccumulateRow(m, k, v, i, kind) ==
    LET st == IF k \in DOMAIN m THEN m[k] ELSE NewInt64State(v, i)
    IN  (k :> [sum |-> IF kind \in {"Sum", "Mean"}
                       THEN WrapInt64(st.sum + v) ELSE st.sum,
               min |-> IF v < st.min THEN v ELSE st.min,
               max |-> IF v > st.max THEN v ELSE st.max,
               count |-> WrapInt64(st.count + 1),
               rep |-> st.rep]) @@ m

\* for i := s; i < e; i++ { ... } over the rows of the value col
RECURSIVE AccumulateRows(_, _, _, _, _, _, _, _)
AccumulateRows(m, h, frame, columns, values, kind, i, e) ==
    IF i >= e THEN m
    ELSE AccumulateRows(
             AccumulateRow(m, buildKey128(h, frame, columns, i), values[i], i, kind),
             h, frame, columns, values, kind, i + 1, e)

\* shard := (rows + workers - 1) / workers
AggShard(rows, w) == (rows + w - 1) \div w

\* local[slot]: the map of the goroutine of `slot` (empty when start >= end)
LocalStates(h, frame, columns, values, kind, w) ==
    LET rows == len(values)
        shard == AggShard(rows, w)
    IN  Stored([slot \in 0..(w - 1) |->
            AccumulateRows(EmptyArr, h, frame, columns, values, kind,
                           slot * shard, Min(slot * shard + shard, rows))])

\* mutant of MergeState: the shard's accumulator is dropped
MergeStateKeepsFirst(dst, st) == dst

\* lines 553-560: the accumulator st of a later shard folded into dst
MergeState(dst, st) ==
    [sum |-> WrapInt64(dst.sum + st.sum),
     count |-> WrapInt64(dst.count + st.count),
     min |-> IF st.min < dst.min THEN st.min ELSE dst.min,
     max |-> IF st.max > dst.max THEN st.max ELSE dst.max,
     rep |-> dst.rep]

\* the map of the later shard replaces what intStates holds for its keys
MergeMapOverwrites(intStates, m) == m @@ intStates

\* lines 547-561: for k, st := range m { ... }; every key occurs once in m,
\* so the order of the range does not matter
MergeMap(intStates, m) ==
    Stored([k \in (DOMAIN intStates) \cup (DOMAIN m) |->
        IF k \notin DOMAIN intStates THEN m[k]
        ELSE IF k \notin DOMAIN m THEN intStates[k]
        ELSE MergeState(intStates[k], m[k])])

\* lines 546-562: for _, m := range local { ... }, in slot order
RECURSIVE MergeLocal(_, _, _, _)
MergeLocal(intStates, local, slot, w) ==
    IF slot >= w THEN intStates
    ELSE MergeLocal(MergeMap(intStates, local[slot]), local, slot + 1, w)

\* lines 473-562
ParallelStates(h, frame, columns, values, kind, w) ==
    MergeLocal(EmptyArr, LocalStates(h, frame, columns, values, kind, w), 0, w)

\* lines 564-618
SerialStates(h, frame, columns, values, kind) ==
    AccumulateRows(EmptyArr, h, frame, columns, values, kind, 0, len(values))

\* lines 466-618: intStates when the accumulation is over
Int64States(h, frame, columns, values, kind, w) ==
    IF len(values) >= AggParallelMin /\ w > 1
    THEN ParallelStates(h, frame, columns, values, kind, w)
    ELSE SerialStates(h, frame, columns, values, kind)

\* mutant of Finalise: the mean is rounded down
FinaliseMeanFloors(st, kind) ==
    CASE kind = "Sum" -> st.sum
      [] kind = "Mean" -> st.sum \div st.count
      [] kind = "Count" -> st.count
      [] kind = "Min" -> st.min
      [] kind = "Max" -> st.max

\* lines 660-672: the output cell of one accumulator
Finalise(st, kind) ==
    CASE kind = "Sum" -> st.sum
      [] kind = "Mean" -> TruncDiv(st.sum, st.count)
      [] kind = "Count" -> st.count
      [] kind = "Min" -> st.min
      [] kind = "Max" -> st.max

\* the orders in which a range over the map m can visit its keys
KeyOrders(m) ==
    {o \in Arrays(Cardinality(DOMAIN m), DOMAIN m) :
        \A i, j \in DOMAIN o : o[i] = o[j] => i = j}

SeqRange(sq) == {sq[i] : i \in 1..Len(sq)}

\* dataframe.go:24-50  New: the frame over the series, or the error of a
\* series whose length differs from the others'
New(series) ==
    IF DOMAIN series = {} THEN [frame |-> [series |-> EmptyArr, length |-> 0], err |-> "nil"]
    ELSE IF \E a, b \in DOMAIN series : series[a].Length # series[b].Length
    THEN [frame |-> [series |-> EmptyArr, length |-> 0], err |-> "series length mismatch"]
    ELSE [frame |-> [series |-> series,
                     length |-> series[CHOOSE a \in DOMAIN series : TRUE].Length],
          err |-> "nil"]

\* a result table: one row per visited key.  Its columns are new arrays no
\* other table shares; the model holds them in the Data field itself.
\* resultSeries[col] of every grouping col is filled from row rowOf[i];
\* resultSeries[column] is assigned last and holds the aggregate cells.
ResultFrame(h, frame, columns, col, rowOf, cells) ==
    LET n == len(rowOf)
    IN  New([nm \in SeqRange(columns) \cup {col} |->
             IF nm = col THEN NewSeries("Int64", cells, n)
             ELSE NewSeries(frame.series[nm].DataType,
                            Stored([i \in 0..(n - 1) |-> h[frame.series[nm].Data][rowOf[i]]]),
                            n)])

\* lines 620-680: the result of the streaming path when the range over
\* intStates visits the keys in the order `order`
StreamingResult(h, frame, columns, col, kind, states, order) ==
    ResultFrame(h, frame, columns, col,
                Stored([i \in DOMAIN order |-> states[order[i]].rep]),
                Stored([i \in DOMAIN order |-> Finalise(states[order[i]], kind)]))

\* line 676: gdf.groups[k] = []int{rep}
PlaceholderGroups(states) ==
    [k \in DOMAIN states |-> Stored([i \in {0} |-> states[k].rep])]

\* radix_purego.go: sumInt64Indexed
RECURSIVE sumInt64Indexed(_, _, _)
sumInt64Indexed(d, ind, upto) ==
    IF upto = 0 THEN 0
    ELSE WrapInt64(sumInt64Indexed(d, ind, upto - 1) + d[ind[upto - 1]])

\* radix_purego.go: minInt64Indexed
minInt64Indexed(d, ind) ==
    IF len(ind) = 0 THEN 0
    ELSE LET vs == {d[ind[i]] : i \in DOMAIN ind}
         IN  CHOOSE v \in vs : \A u \in vs : v <= u

\* radix_purego.go: maxInt64Indexed
maxInt64Indexed(d, ind) ==
    IF len(ind) = 0 THEN 0
    ELSE LET vs == {d[ind[i]] : i \in DOMAIN ind}
         IN  CHOOSE v \in vs : \A u \in vs : v >= u

\* lines 400-413: the aggregate of one group of the legacy path
LegacyCell(d, ind, kind) ==
    CASE kind = "Sum" -> sumInt64Indexed(d, ind, len(ind))
      [] kind = "Mean" -> TruncDiv(sumInt64Indexed(d, ind, len(ind)), len(ind))
      [] kind = "Count" -> len(ind)
      [] kind = "Min" -> minInt64Indexed(d, ind)
      [] kind = "Max" -> maxInt64Indexed(d, ind)

\* lines 346-434: the result of the legacy path when the range over
\* gdf.groups visits the keys in the order `order`
LegacyResult(h, frame, columns, col, kind, groups, order) ==
    ResultFrame(h, frame, columns, col,
                Stored([i \in DOMAIN order |-> groups[order[i]][0]]),
                Stored([i \in DOMAIN order |->
                    LegacyCell(SliceOf(h, frame.series[col]), groups[order[i]], kind)]))

\* GroupBy(columns) (lines 303-319); the handle points at the table df
GroupBy(columns) ==
    /\ pc = "init"
    /\ IF \E i \in 1..Len(columns) : columns[i] \notin DOMAIN df.series
       THEN /\ err' = "column not found"
            /\ UNCHANGED <<pc, gdf>>
       ELSE /\ err' = "nil"
            /\ gdf' = [columns |-> columns, groups |-> NilGroups]
            /\ pc' = "grouped"
    /\ UNCHANGED <<heap, heap0, df, column, xx, aggType, result,
                   ascending, workers, radixVars, permVars>>
    /\ UNCHANGED parVars

\* a handle has been returned by GroupBy
HasHandle == pc \in {"grouped", "streamed", "legacy", "failed"}

\* gdf.groups == nil || len(gdf.groups) == 0
TakesStreamingPath == gdf.groups.isNil \/ DOMAIN gdf.groups.m = {}

\* Aggregate(col, kind) on the handle (lines 336-435), with
\* aggregateStreaming (lines 439-895).  The float64 branches, the same text
\* over float64 accumulators, are not modelled: the calls of the
\* specifications do not aggregate a float64 column.
Aggregate(col, kind) ==
    /\ HasHandle
    /\ col \in DOMAIN df.series => df.series[col].DataType # "Float64"
    /\ column' = col
    /\ aggType' = kind
    /\ IF col \notin DOMAIN df.series
       THEN /\ err' = "column not found"
            /\ result' = NoResult
            /\ pc' = "failed"
            /\ UNCHANGED gdf
       ELSE IF df.series[col].DataType # "Int64"
       THEN /\ err' = "unsupported data type for aggregation"
            /\ result' = NoResult
            /\ pc' = "failed"
            /\ gdf' = IF TakesStreamingPath
                      THEN [gdf EXCEPT !.groups.isNil = FALSE]
                      ELSE gdf
       ELSE IF TakesStreamingPath
       THEN LET states == Int64States(heap, df, gdf.columns,
                                      SliceOf(heap, df.series[col]), kind, workers)
            IN  /\ \E order \in KeyOrders(states) :
                      LET made == StreamingResult(heap, df, gdf.columns, col, kind,
                                                  states, order)
                      IN  /\ result' = made.frame
                          /\ err' = made.err
                /\ gdf' = [gdf EXCEPT !.groups =
                              [isNil |-> FALSE, m |-> PlaceholderGroups(states)]]
                /\ pc' = "streamed"
       ELSE /\ \E order \in KeyOrders(gdf.groups.m) :
                  LET made == LegacyResult(heap, df, gdf.columns, col, kind,
                                           gdf.groups.m, order)
                  IN  /\ result' = made.frame
                      /\ err' = made.err
            /\ pc' = "legacy"
            /\ UNCHANGED gdf
    /\ UNCHANGED <<heap, heap0, df, xx, ascending, workers, radixVars, permVars>>
    /\ UNCHANGED parVars

\* the rows of a result table, as records over its column names
ResultRows(frame) ==
    {[nm \in DOMAIN frame.series |-> frame.series[nm].Data[i]] :
        i \in 0..(frame.length - 1)}

\* the cells of row i of the table in the grouping columns
GroupTuple(h, frame, columns, i) ==
    [c \in 1..Len(columns) |-> h[frame.series[columns[c]].Data][i]]

TableRows == 0..(df.length - 1)

\* the rows of the table whose grouping cells are those of row i
Members(i) ==
    {j \in TableRows :
        GroupTuple(heap, df, gdf.columns, j) = GroupTuple(heap, df, gdf.columns, i)}

\* the first row of every group of the table
GroupLeaders == {i \in TableRows : \A j \in Members(i) : i <= j}

\* distinct grouping-value tuples of the table get distinct Key128 values
KeysDistinct ==
    \A i, j \in TableRows :
        GroupTuple(heap, df, gdf.columns, i) # GroupTuple(heap, df, gdf.columns, j)
            => buildKey128(heap, df, gdf.columns, i) # buildKey128(heap, df, gdf.columns, j)

\* the exact sum of the cells of column d over the rows of the set S
RECURSIVE ExactSum(_, _)
ExactSum(d, S) ==
    IF S = {} THEN 0
    ELSE LET j == CHOOSE x \in S : TRUE IN d[j] + ExactSum(d, S \ {j})

\* the named aggregate of the member values, by its definition
ReferenceCell(d, S, kind) ==
    CASE kind = "Sum" -> WrapInt64(ExactSum(d, S))
      [] kind = "Count" -> Cardinality(S)
      [] kind = "Min" -> CHOOSE v \in {d[j] : j \in S} : \A j \in S : v <= d[j]
      [] kind = "Max" -> CHOOSE v \in {d[j] : j \in S} : \A j \in S : v >= d[j]
      [] kind = "Mean" ->
            LET sum == WrapInt64(ExactSum(d, S))
                n == Cardinality(S)
            IN  CHOOSE q \in MinInt64..MaxInt64 :
                    IF sum >= 0 THEN 0 <= sum - q * n /\ sum - q * n < n
                    ELSE -n < sum - q * n /\ sum - q * n <= 0

\* the row of the reference result for the group led by row i
ReferenceRow(i, col, kind) ==
    [nm \in SeqRange(gdf.columns) \cup {col} |->
        IF nm = col
        THEN ReferenceCell(SliceOf(heap, df.series[col]), Members(i), kind)
        ELSE heap[df.series[nm].Data][i]]

ReferenceRows(col, kind) == {ReferenceRow(i, col, kind) : i \in GroupLeaders}

----------------------------------------------------------------------------
(* SpecAgg: one handle over a table {g, v} of int64 columns, grouped by g, *)
(* and any sequence of Aggregate calls on it.                              *)

\* cells of the grouping column g
GroupKeys == {1, 2}

\* cells of the value column v
AggVals == {-3, 2, MaxInt64}

\* 0xFFFFFFFFFFFFFFFF as a hash word
HashOnes == (2 ^ HashBits) - 1

\* the hash words xx is drawn from: enough to tell two inputs apart, to
\* confuse them, and to make them bitwise complements
HashWords == {0, 1, HashOnes}

AggTable(g, v) ==
    /\ heap = [a \in 0..1 |-> IF a = 0 THEN g ELSE v]
    /\ df = [series |-> [nm \in {"g", "v"} |->
                            IF nm = "g" THEN NewSeries("Int64", 0, len(g))
                            ELSE NewSeries("Int64", 1, len(v))],
             length |-> len(g)]

\* spec section 8, first concrete scenario
ScenarioG == SeqToArr(<<1, 1, 2, 2, 2>>)

ScenarioV == SeqToArr(<<10, 20, 30, 40, 50>>)

InitAgg ==
    /\ pc = "init"
    /\ \/ \E n \in 0..GroupRows :
              \E g \in Arrays(n, GroupKeys) : \E v \in Arrays(n, AggVals) :
                  AggTable(g, v)
       \/ AggTable(ScenarioG, ScenarioV)
    /\ heap0 = heap
    /\ xx \in [{PutUint64(g) : g \in GroupKeys} -> HashWords]
    /\ workers \in WorkerCounts
    /\ gdf = [columns |-> <<>>, groups |-> NilGroups]
    /\ aggType = ""
    /\ result = NoResult
    /\ column = ""
    /\ err = "nil"
    /\ ascending = TRUE
    /\ NoRadix
    /\ NoPermute
    /\ NoPar

NextAgg ==
    \/ GroupBy(<<"g">>)
    \/ \E kind \in AggregationTypes : Aggregate("v", kind)

SpecAgg == InitAgg /\ [][NextAgg]_vars

Aggregated == pc \in {"streamed", "legacy"} /\ err = "nil"

IsScenarioTable ==
    /\ DOMAIN df.series = {"g", "v"}
    /\ ColumnData(heap, df, "g") = ScenarioG
    /\ ColumnData(heap, df, "v") = ScenarioV

\* the result rows of the scenario: group 1 with cell a, group 2 with cell b
ScenarioRows(a, b) == {[g |-> 1, v |-> a], [g |-> 2, v |-> b]}

\* the rows Aggregate(col, kind) returns on a new handle over the table
FreshRows(col, kind) ==
    LET states == Int64States(heap, df, gdf.columns,
                              SliceOf(heap, df.series[col]), kind, workers)
        order == CHOOSE o \in KeyOrders(states) : TRUE
    IN  ResultRows(StreamingResult(heap, df, gdf.columns, col, kind,
                                   states, order).frame)

\* C3: every Aggregate call on a handle returns the rows the same call
\* returns on a new handle over the same table, however many calls were
\* made before; on g=[1,1,2,2,2], v=[10,20,30,40,50] Sum gives {30,120},
\* Count {2,3} and Max {20,50}.
C3_AggregateHistoryIndependent ==
    Aggregated =>
        /\ ResultRows(result) = FreshRows(column, aggType)
        /\ (IsScenarioTable /\ KeysDistinct) =>
              /\ aggType = "Sum" => ResultRows(result) = ScenarioRows(30, 120)
              /\ aggType = "Count" => ResultRows(result) = ScenarioRows(2, 3)
              /\ aggType = "Max" => ResultRows(result) = ScenarioRows(20, 50)

\* the result holds one row per group of the table, with the group's cells
\* and the aggregate of the group's member values
MatchesReference ==
    /\ result.length = Cardinality(GroupLeaders)
    /\ ResultRows(result) = ReferenceRows(column, aggType)

\* C4: on the first Aggregate call of a handle (streaming path), if distinct
\* grouping tuples get distinct Key128 values, the result has exactly one
\* row per distinct tuple, with the wrapping sum, the row count, the true
\* minimum / maximum, or the sum divided by the count truncating toward
\* zero; the scenario table summed gives {g=1,v=30}, {g=2,v=120}.
C4_StreamingAggregateCorrect ==
    (pc = "streamed" /\ KeysDistinct) =>
        /\ err = "nil"
        /\ MatchesReference
        /\ (IsScenarioTable /\ aggType = "Sum")
               => ResultRows(result) = ScenarioRows(30, 120)

\* C4 witness: a mean was taken of a group whose sum is negative and not a
\* multiple of its size, so that the rounding direction shows.
C4_Witness ==
    /\ pc = "streamed" /\ KeysDistinct
    /\ aggType = "Mean"
    /\ \E i \in GroupLeaders :
          LET sum == ExactSum(ColumnData(heap, df, column), Members(i))
          IN  sum < 0 /\ sum % Cardinality(Members(i)) # 0
    /\ MatchesReference

\* the rows the serial path of aggregateStreaming returns
SerialRows(col, kind) ==
    LET states == SerialStates(heap, df, gdf.columns,
                               SliceOf(heap, df.series[col]), kind)
        order == CHOOSE o \in KeyOrders(states) : TRUE
    IN  ResultRows(StreamingResult(heap, df, gdf.columns, col, kind,
                                   states, order).frame)

\* C6: for workers 1, 2 and 8 and every shard boundary, empty shards
\* included, aggregateStreaming returns the rows its serial path returns.
C6_ParallelMatchesSerial ==
    pc = "streamed" =>
        /\ workers \in WorkerCounts
        /\ ResultRows(result) = SerialRows(column, aggType)
        /\ result.length = Cardinality(ResultRows(result))

\* the shard of row i
ShardOf(i) == i \div AggShard(df.length, workers)

\* C6 witness: eight workers on the parallel path, some without rows, and
\* a group whose rows lie in different shards.
C6_Witness ==
    /\ pc = "streamed"
    /\ aggType = "Sum"
    /\ workers = 8
    /\ df.length >= AggParallelMin
    /\ df.length < workers
    /\ \E i \in GroupLeaders : \E j \in Members(i) : ShardOf(i) # ShardOf(j)
    /\ ResultRows(result) = SerialRows(column, aggType)

----------------------------------------------------------------------------
(* SpecGroup: tables with three grouping columns a, b, c of mixed types    *)
(* and a value column v, grouped by a, by a, b and by a, b, c, and         *)
(* counted.                                                                *)

GroupColumns == <<"a", "b", "c">>

\* the column types of a table, for a, b and c
TypeMixes ==
    {<<"Int64", "String", "Boolean">>, <<"Boolean", "Float64", "Int64">>}

\* the cells of a grouping column of type dt: two per type (the float64
\* patterns are those of +0 and of the least positive number, the strings
\* are two bytes long)
GroupCells(dt) ==
    CASE dt = "Int64" -> {0, 1}
      [] dt = "Float64" -> {0, 1}
      [] dt = "String" -> {<<0, 0>>, <<1, 0>>}
      [] dt = "Boolean" -> BOOLEAN

GroupTable(types, a, b, c) ==
    /\ heap = [x \in 0..3 |->
                  CASE x = 0 -> a [] x = 1 -> b [] x = 2 -> c
                    [] x = 3 -> ZeroArr(len(a))]
    /\ df = [series |-> [nm \in {"a", "b", "c", "v"} |->
                            CASE nm = "a" -> NewSeries(types[1], 0, len(a))
                              [] nm = "b" -> NewSeries(types[2], 1, len(a))
                              [] nm = "c" -> NewSeries(types[3], 2, len(a))
                              [] nm = "v" -> NewSeries("Int64", 3, len(a))],
             length |-> len(a)]

InitGroup ==
    /\ pc = "init"
    /\ \E types \in TypeMixes : \E n \in 0..GroupRows :
          \E a \in Arrays(n, GroupCells(types[1])) :
          \E b \in Arrays(n, GroupCells(types[2])) :
          \E c \in Arrays(n, GroupCells(types[3])) :
              GroupTable(types, a, b, c)
    /\ heap0 = heap
    /\ xx \in [{PutUint64(u) : u \in {0, 1}} -> HashWords]
    /\ workers = 1
    /\ gdf = [columns |-> <<>>, groups |-> NilGroups]
    /\ aggType = ""
    /\ result = NoResult
    /\ column = ""
    /\ err = "nil"
    /\ ascending = TRUE
    /\ NoRadix
    /\ NoPermute
    /\ NoPar

NextGroup ==
    \/ \E n \in 1..Len(GroupColumns) : GroupBy(SubSeq(GroupColumns, 1, n))
    \/ (pc = "grouped" /\ Aggregate("v", "Count"))

SpecGroup == InitGroup /\ [][NextGroup]_vars

\* the byte strings hashed for the grouping cells of the table
PresentBytes ==
    {CellBytes(df.series[gdf.columns[c]].DataType,
               heap[df.series[gdf.columns[c]].Data][i]) :
        c \in 1..Len(gdf.columns), i \in TableRows}

\* the per-cell hash is injective on the values present
CellHashInjective ==
    \A x, y \in PresentBytes : x # y => xx[x] # xx[y]

Counted == pc = "streamed" /\ aggType = "Count"

----------------------------------------------------------------------------
(* dataframe.go: the operators that return a new table.  A returned table  *)
(* is held in `result`; its columns are series over arrays of the heap, as *)
(* those of df are.  The caller then goes on with the table it got.        *)

\* the names of a column map in a fixed order (the order in which the model
\* numbers the arrays a call makes; the numbers are only names)
NameSeq(names) ==
    CHOOSE sq \in [1..Cardinality(names) -> names] :
        \A i, j \in DOMAIN sq : sq[i] = sq[j] => i = j

\* the heap h with the new arrays cols[nm], and for every name the series
\* types.NewSeries(nm, cols[nm]) over its new array
NewArrays(h, types, cols) ==
    LET order == NameSeq(DOMAIN cols)
        base == len(h)
        idOf(nm) == base + (CHOOSE k \in DOMAIN order : order[k] = nm) - 1
    IN  [heap |-> [a \in 0..(base + Len(order) - 1) |->
                      IF a < base THEN h[a] ELSE cols[order[a - base + 1]]],
         series |-> [nm \in DOMAIN cols |->
                      NewSeries(types[nm], idOf(nm), len(cols[nm]))]]

\* newData after the append loop: the cells of d whose mask is set, in order
RECURSIVE KeepCells(_, _, _)
KeepCells(d, mask, n) ==
    IF n = 0 THEN EmptyArr
    ELSE LET front == KeepCells(d, mask, n - 1)
         IN  IF mask[n - 1] THEN front @@ (len(front) :> d[n - 1]) ELSE front

\* newData[newIdx] = data[oldIdx] over the index slice ind
Gather(d, ind) == Stored([i \in DOMAIN ind |-> d[ind[i]]])

\* an index expression of the call panics: the Go runtime ends the process
Panicked == "panic"

\* a Select that passes over the names the table does not have
SelectPresent(frame, columns) ==
    New([nm \in SeqRange(columns) \cap DOMAIN frame.series |-> frame.series[nm]])

\* lines 54-62: the table of the named series, or the error of the first
\* name the table does not have
SelectResult(frame, columns) ==
    IF \E i \in 1..Len(columns) : columns[i] \notin DOMAIN frame.series
    THEN [frame |-> NoResult, err |-> "column not found"]
    ELSE New([nm \in SeqRange(columns) |-> frame.series[nm]])

\* Select(columns) (lines 53-63)
Select(columns) ==
    /\ pc = "init"
    /\ LET made == SelectResult(df, columns)
       IN  /\ err' = made.err
           /\ result' = made.frame
    /\ pc' = "returned"
    /\ column' = ""
    /\ UNCHANGED <<heap, heap0, df, xx, gdf, aggType, ascending, workers,
                   radixVars, permVars>>
    /\ UNCHANGED parVars

\* Filter(column, predicate) (lines 66-135); mask[i] is what the predicate
\* answers for the cell of row i
Filter(col, mask) ==
    /\ pc = "init"
    /\ column' = col
    /\ IF col \notin DOMAIN df.series
       THEN /\ err' = "column not found"
            /\ result' = NoResult
            /\ heap' = heap
       ELSE IF \E nm \in DOMAIN df.series :
                  \E i \in DOMAIN mask : i >= df.series[nm].Length
       THEN /\ err' = Panicked
            /\ result' = NoResult
            /\ heap' = heap
       ELSE LET types == [nm \in DOMAIN df.series |-> df.series[nm].DataType]
                cols == [nm \in DOMAIN df.series |->
                            KeepCells(SliceOf(heap, df.series[nm]), mask, len(mask))]
                fresh == NewArrays(heap, types, cols)
                made == New(fresh.series)
            IN  /\ err' = made.err
                /\ result' = made.frame
                /\ heap' = fresh.heap
    /\ pc' = "returned"
    /\ UNCHANGED <<heap0, df, xx, gdf, aggType, ascending, workers,
                   radixVars, permVars>>
    /\ UNCHANGED parVars

\* a Head that keeps n as it is given
HeadRowsUnclamped(n, length) == n

\* lines 153-155: if n > df.length { n = df.length }
HeadRows(n, length) == IF n > length THEN length ELSE n

\* Head(n) (lines 152-172): data[:n] is a slice of the same array; it
\* panics for n < 0
DataFrameHead(n) ==
    /\ pc = "init"
    /\ LET m == HeadRows(n, df.length)
       IN  IF DOMAIN df.series # {} /\ m < 0
           THEN /\ err' = Panicked
                /\ result' = NoResult
           ELSE LET made == New([nm \in DOMAIN df.series |->
                                    NewSeries(df.series[nm].DataType,
                                              df.series[nm].Data, m)])
                IN  /\ err' = made.err
                    /\ result' = made.frame
    /\ pc' = "returned"
    /\ column' = ""
    /\ UNCHANGED <<heap, heap0, df, xx, gdf, aggType, ascending, workers,
                   radixVars, permVars>>
    /\ UNCHANGED parVars

\* lines 245-257: the index slice after sort.Ints or the reversed sort
SortedIndex(n, asc) == IF asc THEN Identity(n) ELSE Reverse(Identity(n))

\* SortByIndex(ascending) (lines 243-289)
SortByIndex(asc) ==
    /\ pc = "init"
    /\ ascending' = asc
    /\ LET ind == SortedIndex(df.length, asc)
           types == [nm \in DOMAIN df.series |-> df.series[nm].DataType]
           cols == [nm \in DOMAIN df.series |->
                       Gather(SliceOf(heap, df.series[nm]), ind)]
           fresh == NewArrays(heap, types, cols)
           made == New(fresh.series)
       IN  /\ err' = made.err
           /\ result' = made.frame
           /\ heap' = fresh.heap
    /\ pc' = "returned"
    /\ column' = ""
    /\ UNCHANGED <<heap0, df, xx, gdf, aggType, workers, radixVars, permVars>>
    /\ UNCHANGED parVars

\* the arrays of h that the table `frame` uses, renumbered from 0 in the
\* order of their numbers, and the table over the renumbered arrays
Collect(h, frame) ==
    LET used == {frame.series[nm].Data : nm \in DOMAIN frame.series}
        rank(a) == Cardinality({b \in used : b < a})
    IN  [heap |-> [r \in 0..(Cardinality(used) - 1) |->
                      h[CHOOSE a \in used : rank(a) = r]],
         frame |-> [series |-> [nm \in DOMAIN frame.series |->
                                   [frame.series[nm] EXCEPT !.Data = rank(@)]],
                    length |-> frame.length]]

\* the caller goes on: with the table a call returned, or with the table
\* it had when the call returned df itself, an error or a group result.
\* Arrays that no table of the caller uses any more are dropped.
Continue ==
    /\ pc \in {"returned", "done", "grouped", "streamed", "legacy", "failed"}
    /\ err # Panicked
    /\ LET kept == IF pc = "returned" /\ err = "nil" THEN result ELSE df
           live == Collect(heap, kept)
       IN  /\ df' = live.frame
           /\ heap' = live.heap
           /\ heap0' = live.heap
    /\ pc' = "init"
    /\ result' = NoResult
    /\ gdf' = [columns |-> <<>>, groups |-> NilGroups]
    /\ aggType' = ""
    /\ column' = ""
    /\ err' = "nil"
    /\ ascending' = TRUE
    /\ keys' = EmptyArr
    /\ indices' = EmptyArr
    /\ UNCHANGED <<xx, workers, permVars>>
    /\ UNCHANGED parVars

----------------------------------------------------------------------------
(* SpecOps: columns built with NewSeries, a table made of some of them     *)
(* with New, and any sequence of calls on the tables the calls return.     *)

\* the cells of the string column s
OpsStrings == {<<1, 0>>, <<2, 0>>}

OpsTypes == [g |-> "Int64", s |-> "String"]

\* a New without the loop of lines 40-44
NewUnverified(series, first) ==
    [frame |-> [series |-> series, length |-> series[first].Length], err |-> "nil"]

\* lines 33-49 of New for a map that is not empty, when the first range
\* loop visits the column `first`
NewVisiting(series, first) ==
    LET length == series[first].Length
    IN  IF \E nm \in DOMAIN series : series[nm].Length # length
        THEN [frame |-> [series |-> EmptyArr, length |-> 0],
              err |-> "series length mismatch"]
        ELSE [frame |-> [series |-> series, length |-> length], err |-> "nil"]

\* the column map handed to New: types.NewSeries of the arrays of `names`
NewSeriesMap(names) ==
    [nm \in names |-> NewSeries(OpsTypes[nm], IF nm = "g" THEN 0 ELSE 1,
                                len(heap[IF nm = "g" THEN 0 ELSE 1]))]

\* what New can return for the map, over the orders of a map range
NewResults(series) ==
    IF DOMAIN series = {}
    THEN {[frame |-> [series |-> EmptyArr, length |-> 0], err |-> "nil"]}
    ELSE {NewVisiting(series, first) : first \in DOMAIN series}

\* New(series) (lines 24-50) on the columns `names`
NewFrame(names) ==
    /\ pc = "start"
    /\ \E made \in NewResults(NewSeriesMap(names)) :
           /\ err' = made.err
           /\ IF made.err = "nil"
              THEN LET live == Collect(heap, made.frame)
                   IN  /\ df' = live.frame
                       /\ heap' = live.heap
                       /\ heap0' = live.heap
                       /\ pc' = "init"
              ELSE /\ pc' = "no table"
                   /\ UNCHANGED <<df, heap, heap0>>
    /\ UNCHANGED <<column, xx, gdf, aggType, result, ascending, workers,
                   radixVars, permVars>>
    /\ UNCHANGED parVars

InitOps ==
    /\ pc = "start"
    /\ \E g \in ArraysUpTo(GroupRows, GroupKeys) :
       \E s \in ArraysUpTo(GroupRows, OpsStrings) :
           heap = [a \in 0..1 |-> IF a = 0 THEN g ELSE s]
    /\ heap0 = heap
    /\ df = [series |-> EmptyArr, length |-> 0]
    /\ column = ""
    /\ err = "nil"
    /\ xx \in {[b \in {PutUint64(u) : u \in GroupKeys} |-> b[1] % m] : m \in 1..2}
    /\ workers = 2
    /\ gdf = [columns |-> <<>>, groups |-> NilGroups]
    /\ aggType = ""
    /\ result = NoResult
    /\ ascending = TRUE
    /\ NoRadix
    /\ NoPermute
    /\ NoPar

OpsColumns == {"g", "s"}

\* the name lists of the Select calls and of the GroupBy calls
SelectLists == {<<>>, <<"g">>, <<"s">>, <<"s", "g">>, <<"missing">>, <<"g", "missing">>}

GroupLists == {<<"g">>, <<"s">>, <<"missing">>, <<"g", "missing">>}

NextOps ==
    \/ \E names \in SUBSET OpsColumns : NewFrame(names)
    \/ \E columns \in SelectLists : Select(columns)
    \/ \E col \in OpsColumns \cup {"missing"} :
           \E mask \in Arrays(df.length, BOOLEAN) : Filter(col, mask)
    \/ \E n \in (-1)..(GroupRows + 1) : DataFrameHead(n)
    \/ \E asc \in BOOLEAN : SortByIndex(asc)
    \/ \E col \in OpsColumns : \E asc \in BOOLEAN : SortByColumn(col, asc)
    \/ SortByColumnNotFound("missing")
    \/ \E columns \in GroupLists : GroupBy(columns)
    \/ \E col \in OpsColumns \cup {"missing"} :
           \E kind \in {"Sum", "Count"} : Aggregate(col, kind)
    \/ Continue

SpecOps == InitOps /\ [][NextOps]_vars

\* two of the columns `names` have different lengths
LengthsDiffer(names) ==
    \E a, b \in names : NewSeriesMap(names)[a].Length # NewSeriesMap(names)[b].Length

\* C14: New returns an error and no table whenever two supplied columns
\* have different lengths, whichever column the map range visits first;
\* for an empty map it returns a table of no rows and no columns, and for
\* columns of one length the table of these columns and that length.
C14_NewChecksLengths ==
    [][\A names \in SUBSET OpsColumns :
          NewFrame(names) =>
              IF LengthsDiffer(names)
              THEN err' # "nil" /\ pc' = "no table" /\ df' = df
              ELSE /\ err' = "nil" /\ pc' = "init"
                   /\ DOMAIN df'.series = names
                   /\ \A nm \in names : df'.length = len(heap[NewSeriesMap(names)[nm].Data])
                   /\ names = {} => df'.length = 0]_vars

\* C14 witness: New has refused two columns of different lengths.
C14_Witness ==
    /\ pc = "no table"
    /\ err = "series length mismatch"
    /\ len(heap[0]) # len(heap[1])
    /\ DOMAIN df.series = {}

\* the list names a column that the table does not have
NamesMissing(columns) == \E i \in 1..Len(columns) : columns[i] \notin DOMAIN df.series

\* a call of Select, Filter, SortByColumn, GroupBy or Aggregate that names
\* a column the table does not have
MissingColumnCall ==
    \/ \E columns \in SelectLists : NamesMissing(columns) /\ Select(columns)
    \/ \E col \in (OpsColumns \cup {"missing"}) \ DOMAIN df.series :
           \/ \E mask \in Arrays(df.length, BOOLEAN) : Filter(col, mask)
           \/ SortByColumnNotFound(col)
           \/ \E asc \in BOOLEAN : SortByColumn(col, asc)
           \/ \E kind \in AggregationTypes : Aggregate(col, kind)
    \/ \E columns \in GroupLists : NamesMissing(columns) /\ GroupBy(columns)

\* C15: a call of Select, Filter, SortByColumn, GroupBy or Aggregate that
\* names a column the table does not have returns an error and no table or
\* handle, and leaves the table, its arrays and the group handle as they
\* were.
C15_MissingColumnIsError ==
    [][MissingColumnCall =>
          /\ err' = "column not found"
          /\ result' = NoResult
          /\ pc' # "grouped"
          /\ df' = df /\ heap' = heap /\ gdf' = gdf]_vars

\* C15 witness: Select of a column the table has and one it has not, on a
\* table of two rows, has returned the error and no table.
C15_Witness ==
    /\ pc = "returned"
    /\ err = "column not found"
    /\ result = NoResult
    /\ column = ""
    /\ DOMAIN df.series = {"g", "s"}
    /\ df.length = 2
    /\ heap = heap0

\* the error of lines 376-377 and 892-894
Unsupported == "unsupported data type for aggregation"

\* an Aggregate call on the string column of the table returns the error
\* and no table, whichever path the handle takes
UnsupportedIsError ==
    ("s" \in DOMAIN df.series /\ \E kind \in AggregationTypes : Aggregate("s", kind))
        => (err' = Unsupported /\ result' = NoResult)

\* an Aggregate call on the Int64 column, made on a handle whose last call
\* failed on the string column, returns the rows of a new handle
AsFreshAfterFailure ==
    (/\ pc = "failed" /\ err = Unsupported
     /\ "g" \in DOMAIN df.series
     /\ \E kind \in AggregationTypes : Aggregate("g", kind))
        => (err' = "nil" /\ ResultRows(result') = FreshRows("g", aggType'))

\* the first part of C16 alone
C16_UnsupportedTypeIsError == [][UnsupportedIsError]_vars

\* C16: Aggregate on a string column returns an error and no table, on the
\* first call of a handle and on later calls; an Aggregate on a supported
\* column of the same handle after such a failed call returns what it
\* returns on a new handle.
C16_FailedAggregateLeavesHandle ==
    [][UnsupportedIsError /\ AsFreshAfterFailure]_vars

\* the table `frame` over the heap h holds the first m rows of df in their
\* order
HoldsFirstRows(h, frame, m) ==
    /\ frame.length = m
    /\ DOMAIN frame.series = DOMAIN df.series
    /\ \A nm \in DOMAIN frame.series :
           /\ frame.series[nm].Length = m
           /\ \A i \in 0..(m - 1) :
                  ColumnData(h, frame, nm)[i] = ColumnData(heap, df, nm)[i]

\* C17: for every integer n, below 0, 0 and above the row count included,
\* Head(n) returns the table of the first min(n, row count) rows in their
\* order or an error value; it never ends the process.
C17_HeadNeverAborts ==
    [][\A n \in (-1)..(GroupRows + 1) :
          DataFrameHead(n) =>
              /\ err' # Panicked
              /\ err' = "nil" =>
                     HoldsFirstRows(heap', result', Min(IF n < 0 THEN 0 ELSE n, df.length))]_vars

\* every column of the table `frame` over the heap h has as many elements
\* as the table has rows
ColumnsHaveLength(h, frame) ==
    \A nm \in DOMAIN frame.series :
        /\ frame.series[nm].Length = frame.length
        /\ frame.series[nm].Data \in DOMAIN h
        /\ frame.series[nm].Length <= len(h[frame.series[nm].Data])
        /\ len(SliceOf(h, frame.series[nm])) = frame.length

\* the same for a result of Aggregate, whose columns the model holds by
\* value
ValueColumnsHaveLength(frame) ==
    \A nm \in DOMAIN frame.series :
        /\ frame.series[nm].Length = frame.length
        /\ len(frame.series[nm].Data) = frame.length

\* C12: after any sequence of New, Select, Filter, Head, SortByColumn,
\* SortByIndex and GroupBy / Aggregate calls on columns built with
\* NewSeries, every table returned without error has every column's
\* element count equal to its row count.
C12_ColumnsHaveTableLength ==
    /\ pc # "start" => ColumnsHaveLength(heap, df)
    /\ (pc = "returned" /\ err = "nil") => ColumnsHaveLength(heap, result)
    /\ (pc \in {"streamed", "legacy"} /\ err = "nil") => ValueColumnsHaveLength(result)

\* C12 witness: a call on a table that an earlier call returned has itself
\* returned a table of one row and two columns, fewer rows than the arrays
\* the first table was made of.
C12_Witness ==
    /\ pc = "returned" /\ err = "nil"
    /\ DOMAIN result.series = {"g", "s"}
    /\ result.length = 1
    /\ df.length = 2
    /\ heap0 # heap
    /\ ColumnsHaveLength(heap, result)

----------------------------------------------------------------------------
(* Package types (used by the bridge): a DataFrame is [Series, Length,     *)
(* GroupIndices, GroupColumns]; GroupBy returns a table that carries the   *)
(* row indices of its groups, and Aggregate is a method of such a table.   *)

\* no table: the nil *DataFrame
NilTable == [isNil |-> TRUE]

\* a nil map[string][]int
NilIndices == [isNil |-> TRUE, m |-> EmptyArr]

\* the elements of a set of integers in ascending order
SortedArr(S) ==
    CHOOSE a \in Arrays(Cardinality(S), S) :
        \A i, j \in DOMAIN a : i < j => a[i] < a[j]

DigitChars == <<"0", "1", "2", "3", "4", "5", "6", "7", "8", "9">>

RECURSIVE Digits(_)
Digits(n) ==
    IF n < 10 THEN <<DigitChars[n + 1]>>
    ELSE Digits(n \div 10) \o <<DigitChars[(n % 10) + 1]>>

\* strconv.FormatInt(k, 10)
FormatInt(k) == IF k < 0 THEN <<"-">> \o Digits(-k) ELSE Digits(k)

\* types.New (part_002 lines 95-125) on a map whose series have one length
TypesNew(series) ==
    [Series |-> series,
     Length |-> IF DOMAIN series = {} THEN 0
                ELSE series[CHOOSE nm \in DOMAIN series : TRUE].Length,
     GroupIndices |-> NilIndices,
     GroupColumns |-> <<>>]

\* lines 204-209: groups[v] = append(groups[v], i) over the rows of data
RowGroups(d) ==
    [v \in {d[i] : i \in DOMAIN d} |-> SortedArr({i \in DOMAIN d : d[i] = v})]

\* buildGroupedDataFrameSingleInt64 (lines 268-294), with the new key array
\* placed in the heap h
buildGroupedDataFrameSingleInt64(h, frame, col, groups) ==
    LET ks == SortedArr(DOMAIN groups)
        fresh == NewArrays(h, [nm \in {col} |-> "Int64"], [nm \in {col} |-> ks])
    IN  [heap |-> fresh.heap,
         table |-> [Series |-> [nm \in DOMAIN frame.Series |->
                                   IF nm = col THEN fresh.series[col]
                                   ELSE frame.Series[nm]],
                    Length |-> len(ks),
                    GroupIndices |->
                        [isNil |-> FALSE,
                         m |-> [s \in {FormatInt(k) : k \in DOMAIN groups} |->
                                   groups[CHOOSE k \in DOMAIN groups : FormatInt(k) = s]]],
                    GroupColumns |-> <<col>>]]

\* GroupBy(columns) of package types (lines 185-265) for one int64 column,
\* the grouping the calls of this specification make
TypesGroupBy(columns) ==
    /\ pc = "init"
    /\ Len(columns) = 1
    /\ IF columns[1] \notin DOMAIN df.Series
       THEN /\ err' = "column not found"
            /\ result' = NilTable
            /\ heap' = heap
       ELSE LET made == buildGroupedDataFrameSingleInt64(
                            heap, df, columns[1],
                            RowGroups(SliceOf(heap, df.Series[columns[1]])))
            IN  /\ err' = "nil"
                /\ result' = made.table
                /\ heap' = made.heap
    /\ pc' = "returned"
    /\ column' = ""
    /\ aggType' = ""
    /\ UNCHANGED <<heap0, df, xx, gdf, ascending, workers, radixVars, permVars>>
    /\ UNCHANGED parVars

\* a check of the grouping columns in place of the check of GroupIndices
GroupColumnsEmpty(frame) == frame.GroupColumns = <<>>

\* line 450: df.GroupIndices == nil
NotGrouped(frame) == frame.GroupIndices.isNil

\* lines 772-788: the state map after the first n keys
RECURSIVE StreamingStates(_, _, _)
StreamingStates(ks, values, n) ==
    IF n = 0 THEN EmptyArr
    ELSE LET state == StreamingStates(ks, values, n - 1)
             k == ks[n - 1]
             v == values[n - 1]
         IN  IF k \notin DOMAIN state
             THEN state @@ (k :> [sum |-> v, min |-> v, max |-> v, count |-> 1])
             ELSE [state EXCEPT
                      ![k] = [sum |-> WrapInt64(@.sum + v),
                              min |-> IF v < @.min THEN v ELSE @.min,
                              max |-> IF v > @.max THEN v ELSE @.max,
                              count |-> @.count + 1]]

\* lines 798-813: the result value of one state
StreamingValue(st, kind) ==
    CASE kind = "Sum" -> st.sum
      [] kind = "Mean" -> IF st.count > 0 THEN TruncDiv(st.sum, st.count) ELSE 0
      [] kind = "Count" -> st.count
      [] kind = "Min" -> st.min
      [] kind = "Max" -> st.max

\* aggregateStreamingInt64Key (lines 769-830) for an int64 value column
aggregateStreamingInt64Key(h, frame, ks, valSeries, col, kind) ==
    LET values == SliceOf(h, valSeries)
        state == StreamingStates(ks, values, len(ks))
        uniq == SortedArr(DOMAIN state)
        resultVals == Stored([i \in DOMAIN uniq |-> StreamingValue(state[uniq[i]], kind)])
        keyCol == frame.GroupColumns[1]
        fresh == NewArrays(h, [nm \in {keyCol, col} |-> "Int64"],
                           [nm \in {keyCol, col} |->
                               IF nm = col THEN resultVals ELSE uniq])
    IN  [heap |-> fresh.heap,
         table |-> [Series |-> [nm \in DOMAIN frame.Series |->
                                   IF nm \in {keyCol, col} THEN fresh.series[nm]
                                   ELSE frame.Series[nm]],
                    Length |-> len(uniq),
                    GroupIndices |-> NilIndices,
                    GroupColumns |-> frame.GroupColumns]]

\* Aggregate(column, aggType) of package types (lines 440-588) on a table
\* grouped by one int64 column; values[i] panics when the value column is
\* shorter than the key column
TypesAggregate(col, kind) ==
    /\ pc = "init"
    /\ column' = col
    /\ aggType' = kind
    /\ IF col \notin DOMAIN df.Series
       THEN /\ err' = "column not found"
            /\ result' = NilTable
            /\ heap' = heap
       ELSE IF NotGrouped(df)
       THEN /\ err' = "DataFrame is not grouped"
            /\ result' = NilTable
            /\ heap' = heap
       ELSE LET ks == SliceOf(heap, df.Series[df.GroupColumns[1]])
            IN  IF df.Series[col].Length < len(ks)
                THEN /\ err' = Panicked
                     /\ result' = NilTable
                     /\ heap' = heap
                ELSE LET made == aggregateStreamingInt64Key(heap, df, ks,
                                                            df.Series[col], col, kind)
                     IN  /\ err' = "nil"
                         /\ result' = made.table
                         /\ heap' = made.heap
    /\ pc' = "returned"
    /\ UNCHANGED <<heap0, df, xx, gdf, ascending, workers, radixVars, permVars>>
    /\ UNCHANGED parVars

\* the arrays of h that the table uses, renumbered from 0, and the table
\* over the renumbered arrays
TypesCollect(h, table) ==
    LET used == {table.Series[nm].Data : nm \in DOMAIN table.Series}
        rank(a) == Cardinality({b \in used : b < a})
    IN  [heap |-> [r \in 0..(Cardinality(used) - 1) |->
                      h[CHOOSE a \in used : rank(a) = r]],
         table |-> [table EXCEPT
                       !.Series = [nm \in DOMAIN @ |-> [@[nm] EXCEPT !.Data = rank(@)]]]]

\* the caller goes on with the table the call returned, or after an error
\* with the table it had
TypesContinue ==
    /\ pc = "returned"
    /\ err # Panicked
    /\ LET live == TypesCollect(heap, IF err = "nil" THEN result ELSE df)
       IN  /\ df' = live.table
           /\ heap' = live.heap
           /\ heap0' = live.heap
    /\ pc' = "init"
    /\ result' = NilTable
    /\ err' = "nil"
    /\ column' = ""
    /\ aggType' = ""
    /\ UNCHANGED <<xx, gdf, ascending, workers, radixVars, permVars>>
    /\ UNCHANGED parVars

----------------------------------------------------------------------------
(* SpecTypes: a table of package types with the int64 columns k and v, and *)
(* any sequence of GroupBy and Aggregate calls on the tables returned.     *)

TypesColumns == {"k", "v"}

TypesVals == {-1, 2}

\* the table {k, v} of package types
TypesTable(k, v) ==
    /\ heap = [a \in 0..1 |-> IF a = 0 THEN k ELSE v]
    /\ df = TypesNew([nm \in TypesColumns |->
                         NewSeries("Int64", IF nm = "k" THEN 0 ELSE 1, len(k))])

InitTypes ==
    /\ pc = "init"
    /\ \/ \E n \in 0..GroupRows :
              \E k \in Arrays(n, GroupKeys) : \E v \in Arrays(n, TypesVals) :
                  TypesTable(k, v)
       \/ TypesTable(ScenarioG, ScenarioV)
    /\ heap0 = heap
    /\ result = NilTable
    /\ err = "nil"
    /\ column = ""
    /\ aggType = ""
    /\ xx = EmptyArr
    /\ gdf = [columns |-> <<>>, groups |-> NilGroups]
    /\ ascending = TRUE
    /\ workers = 1
    /\ NoRadix
    /\ NoPermute
    /\ NoPar

NextTypes ==
    \/ \E col \in TypesColumns \cup {"missing"} : TypesGroupBy(<<col>>)
    \/ \E col \in TypesColumns \cup {"missing"} :
           \E kind \in AggregationTypes : TypesAggregate(col, kind)
    \/ TypesContinue

SpecTypes == InitTypes /\ [][NextTypes]_vars

\* the table at hand has no group indices
NotGroupedTable == df.GroupIndices.isNil

\* C18: in package types, Aggregate on a table whose GroupIndices is nil,
\* a table returned by an earlier Aggregate included, returns an error and
\* no table, for every column and aggregation kind.
C18_UngroupedAggregateIsError ==
    [][(NotGroupedTable /\ \E col \in TypesColumns \cup {"missing"} :
                              \E kind \in AggregationTypes : TypesAggregate(col, kind))
          => (err' \notin {"nil", Panicked} /\ result' = NilTable)]_vars

\* C18 witness: Aggregate was refused on a table of two groups that an
\* earlier Aggregate returned.
C18_Witness ==
    /\ pc = "returned"
    /\ err = "DataFrame is not grouped"
    /\ result = NilTable
    /\ df.GroupIndices.isNil
    /\ df.GroupColumns = <<"k">>
    /\ df.Length = 2
    /\ column = "v"

----------------------------------------------------------------------------
(* The representative row of a group, checked in SpecAgg (serial and       *)
(* parallel path) and, with the aggregated column among the grouping       *)
(* columns, in SpecOps.                                                    *)

\* the Key128 values of the rows of the table
TableKeys == {buildKey128(heap, df, gdf.columns, i) : i \in TableRows}

\* the smallest row index whose key is k
FirstRowOf(k) ==
    CHOOSE i \in TableRows :
        /\ buildKey128(heap, df, gdf.columns, i) = k
        /\ \A j \in TableRows : buildKey128(heap, df, gdf.columns, j) = k => i <= j

\* the representative row recorded for every key is the smallest row index
\* with that key (read from the placeholder of line 676)
RepIsFirstRow ==
    /\ DOMAIN gdf.groups.m = TableKeys
    /\ \A k \in TableKeys : gdf.groups.m[k] = Stored([i \in {0} |-> FirstRowOf(k)])

\* the grouping cells of the result rows are those of the representative
\* rows, one result row per key
GroupCellsFromRep ==
    /\ result.length = Cardinality(TableKeys)
    /\ \A c \in SeqRange(gdf.columns) : c \in DOMAIN result.series
    /\ {[c \in SeqRange(gdf.columns) |-> result.series[c].Data[i]] :
            i \in 0..(result.length - 1)}
         = {[c \in SeqRange(gdf.columns) |-> ColumnData(heap, df, c)[FirstRowOf(k)]] :
               k \in TableKeys}

\* C20: after aggregateStreaming, on the serial and on the parallel path,
\* the representative row of every group is the smallest row index with
\* the group's key, and the grouping-column values of the result are read
\* from that row.
C20_RepresentativeIsFirstRow ==
    (pc = "streamed" /\ err = "nil") => (RepIsFirstRow /\ GroupCellsFromRep)

\* C20 as it holds: the same, when the aggregated column is not one of the
\* grouping columns.
C20_RepresentativeIsFirstRowOtherColumn ==
    (pc = "streamed" /\ err = "nil" /\ column \notin SeqRange(gdf.columns))
        => (RepIsFirstRow /\ GroupCellsFromRep)

----------------------------------------------------------------------------
(* radix_writer.go, goroutine by goroutine: radixSortUint64KeysParallel    *)
(* with the goroutine that runs it (`main`), the goroutines it starts for  *)
(* the shards (`gor`, one step per loop iteration) and the WaitGroup       *)
(* counter `wg`.  `shared` holds indices, tmp, counts and preOffsets;      *)
(* `accesses` records, for the pass under way, every read and write of a   *)
(* cell of these arrays by a shard goroutine; it is emptied when the pass  *)
(* ends.                                                                   *)

\* the keys of the runs of the specification
ParKeys == {1, MaxKey}

NotStarted == [pc |-> "none", i |-> 0, e |-> 0]

\* wg.Wait() returns whatever the counter is
WaitReturnsAtOnce(counter) == TRUE

\* wg.Wait() (lines 88 and 140) returns when the counter is zero
WaitReturns(counter) == counter = 0

\* counts[w] = make([]int, buckets) for every w (lines 45-53, 61-65)
ZeroShardCounts(w) == Stored([slot \in 0..(w - 1) |-> ZeroCounts])

\* one access of a shard goroutine to a cell of a shared array
Access(phase, slot, i, op, arr, cell) ==
    [phase |-> phase, slot |-> slot, i |-> i, op |-> op, arr |-> arr, cell |-> cell]

\* lines 15-40: the short and the small input go to the serial routine;
\* otherwise indices and tmp are made
ParEntry ==
    /\ main.pc = "entry"
    /\ LET n == len(keys)
       IN  IF n <= 1 \/ workers < 2 \/ n < RadixParallelMin
           THEN /\ indices' = radixSortUint64KeysParallel(keys, ascending, workers)
                /\ main' = [main EXCEPT !.pc = "returned"]
                /\ UNCHANGED shared
           ELSE /\ shared' = [indices |-> Identity(n), tmp |-> ZeroArr(n),
                              counts |-> ZeroShardCounts(workers),
                              preOffsets |-> ZeroShardCounts(workers)]
                /\ main' = [main EXCEPT !.pc = "pass"]
                /\ UNCHANGED indices
    /\ UNCHANGED <<pc, keys, ascending, workers, wg, gor, accesses,
                   permVars, frameVars, groupVars>>

\* lines 57-68: the pass begins: counts are zeroed and wg.Add(workers)
StartHistogram ==
    /\ main.pc = "pass"
    /\ main.pass < Passes
    /\ shared' = [shared EXCEPT !.counts = ZeroShardCounts(workers)]
    /\ wg' = wg + workers
    /\ gor' = [slot \in 0..(workers - 1) |-> NotStarted]
    /\ main' = [main EXCEPT !.pc = "go histogram", !.w = 0]
    /\ UNCHANGED <<pc, keys, ascending, workers, indices, accesses,
                   permVars, frameVars, groupVars>>

\* one turn of a loop over w (lines 69-87 and 118-139): wg.Done() for an
\* empty shard, the go statement otherwise
SpawnShard(at, phase, waiting) ==
    /\ main.pc = at
    /\ LET n == len(keys)
           w == main.w
           start == ShardStart(n, workers, w)
           end == ShardEnd(n, workers, w)
       IN  /\ IF start >= end
              THEN /\ wg' = wg - 1
                   /\ UNCHANGED gor
              ELSE /\ gor' = [gor EXCEPT ![w] = [pc |-> phase, i |-> start, e |-> end]]
                   /\ UNCHANGED wg
           /\ main' = IF w + 1 < workers THEN [main EXCEPT !.w = w + 1]
                      ELSE [main EXCEPT !.pc = waiting]
    /\ UNCHANGED <<pc, keys, ascending, workers, indices, shared, accesses,
                   permVars, frameVars, groupVars>>

GoHistogram == SpawnShard("go histogram", "histogram", "wait histogram")

\* lines 81-84: one turn of the histogram loop of the goroutine of `slot`
HistogramStep(slot) ==
    /\ gor[slot].pc = "histogram"
    /\ gor[slot].i < gor[slot].e
    /\ LET i == gor[slot].i
           b == Digit(keys[shared.indices[i]], main.pass)
       IN  /\ shared' = [shared EXCEPT !.counts[slot][b] = @ + 1]
           /\ accesses' = accesses \cup
                  {Access("histogram", slot, i, "read", "indices", i),
                   Access("histogram", slot, i, "write", "counts", <<slot, b>>)}
           /\ gor' = [gor EXCEPT ![slot].i = i + 1]
    /\ UNCHANGED <<pc, keys, ascending, workers, indices, main, wg,
                   permVars, frameVars, groupVars>>

\* lines 85 and 137: the loop is over, wg.Done()
ShardDone(slot, phase) ==
    /\ gor[slot].pc = phase
    /\ gor[slot].i >= gor[slot].e
    /\ wg' = wg - 1
    /\ gor' = [gor EXCEPT ![slot].pc = "done"]
    /\ UNCHANGED <<pc, keys, ascending, workers, indices, main, shared, accesses,
                   permVars, frameVars, groupVars>>

HistogramDone(slot) == ShardDone(slot, "histogram")

\* lines 88-114: wg.Wait() returns, then global and preOffsets are computed
\* from the counts as they are
ComputeOffsets ==
    /\ main.pc = "wait histogram"
    /\ WaitReturns(wg)
    /\ shared' = [shared EXCEPT !.preOffsets = PreOffsets(shared.counts, workers)]
    /\ main' = [main EXCEPT !.pc = "offsets"]
    /\ UNCHANGED <<pc, keys, ascending, workers, indices, wg, gor, accesses,
                   permVars, frameVars, groupVars>>

\* line 117: wg.Add(workers)
StartScatter ==
    /\ main.pc = "offsets"
    /\ wg' = wg + workers
    /\ main' = [main EXCEPT !.pc = "go scatter", !.w = 0]
    /\ UNCHANGED <<pc, keys, ascending, workers, indices, gor, shared, accesses,
                   permVars, frameVars, groupVars>>

GoScatter == SpawnShard("go scatter", "scatter", "wait scatter")

\* lines 131-135: one turn of the scatter loop of the goroutine of `slot`;
\* tmp[pos] panics when pos is not an index of tmp
ScatterStep(slot) ==
    /\ gor[slot].pc = "scatter"
    /\ gor[slot].i < gor[slot].e
    /\ LET i == gor[slot].i
           id == shared.indices[i]
           b == Digit(keys[id], main.pass)
           pos == shared.preOffsets[slot][b]
       IN  IF pos \notin DOMAIN shared.tmp
           THEN /\ main' = [main EXCEPT !.pc = Panicked]
                /\ UNCHANGED <<shared, accesses, gor>>
           ELSE /\ shared' = [shared EXCEPT !.tmp[pos] = id,
                                            !.preOffsets[slot][b] = pos + 1]
                /\ accesses' = accesses \cup
                       {Access("scatter", slot, i, "read", "indices", i),
                        Access("scatter", slot, i, "write", "tmp", pos),
                        Access("scatter", slot, i, "write", "preOffsets", <<slot, b>>)}
                /\ gor' = [gor EXCEPT ![slot].i = i + 1]
                /\ UNCHANGED main
    /\ UNCHANGED <<pc, keys, ascending, workers, indices, wg,
                   permVars, frameVars, groupVars>>

ScatterDone(slot) == ShardDone(slot, "scatter")

\* lines 140-143: wg.Wait() returns; indices, tmp = tmp, indices
SwapBuffers ==
    /\ main.pc = "wait scatter"
    /\ WaitReturns(wg)
    /\ shared' = [shared EXCEPT !.indices = shared.tmp, !.tmp = shared.indices]
    /\ main' = [main EXCEPT !.pc = "pass", !.pass = @ + 1]
    /\ accesses' = {}
    /\ UNCHANGED <<pc, keys, ascending, workers, indices, wg, gor,
                   permVars, frameVars, groupVars>>

\* lines 146-153: the passes are over; reverse for descending and return
ParReturn ==
    /\ main.pc = "pass"
    /\ main.pass >= Passes
    /\ indices' = IF ascending THEN shared.indices ELSE Reverse(shared.indices)
    /\ main' = [main EXCEPT !.pc = "returned"]
    /\ UNCHANGED <<pc, keys, ascending, workers, wg, gor, shared, accesses,
                   permVars, frameVars, groupVars>>

----------------------------------------------------------------------------
(* SpecParallelRadix: one call of radixSortUint64KeysParallel under every  *)
(* interleaving of its goroutines.                                         *)

InitParallelRadix ==
    /\ pc = "init"
    /\ keys \in ArraysUpTo(MaxLen, ParKeys)
    /\ ascending \in BOOLEAN
    /\ workers \in WorkerCounts
    /\ indices = EmptyArr
    /\ main = [pc |-> "entry", pass |-> 0, w |-> 0]
    /\ wg = 0
    /\ gor = EmptyArr
    /\ shared = EmptyArr
    /\ accesses = {}
    /\ NoPermute
    /\ NoFrame
    /\ NoGroup

NextParallelRadix ==
    \/ ParEntry
    \/ StartHistogram
    \/ GoHistogram
    \/ \E slot \in DOMAIN gor : HistogramStep(slot)
    \/ \E slot \in DOMAIN gor : HistogramDone(slot)
    \/ ComputeOffsets
    \/ StartScatter
    \/ GoScatter
    \/ \E slot \in DOMAIN gor : ScatterStep(slot)
    \/ \E slot \in DOMAIN gor : ScatterDone(slot)
    \/ SwapBuffers
    \/ ParReturn

SpecParallelRadix == InitParallelRadix /\ [][NextParallelRadix]_vars

\* the writes of the scatter goroutines to tmp in the pass under way
TmpWrites == {a \in accesses : a.arr = "tmp" /\ a.op = "write"}

\* the range of tmp that the offsets computed from the shard histograms
\* give the goroutine of `slot` for bucket b
OffsetRange(slot, b) ==
    LET counts == ShardCounts(keys, shared.indices, main.pass, workers)
        pre == PreOffsets(counts, workers)
    IN  pre[slot][b]..(pre[slot][b] + counts[slot][b] - 1)

\* every scatter goroutine of the pass has finished
ScatterOver == main.pc = "wait scatter" /\ wg = 0

\* C21: in every pass of the parallel radix sort, under every interleaving
\* of the scatter goroutines, no slot of the destination array is written
\* twice, by two goroutines or by one; every goroutine writes only within
\* the offset ranges computed for it from the shard histograms; and when
\* the goroutines of the pass have finished every slot in [0, N) has been
\* written.
C21_ScatterWritesDisjoint ==
    /\ main.pc # Panicked
    /\ \A a, b \in TmpWrites : a.cell = b.cell => a = b
    /\ \A a \in TmpWrites :
           a.cell \in OffsetRange(a.slot, Digit(keys[shared.indices[a.i]], main.pass))
    /\ ScatterOver => {a.cell : a \in TmpWrites} = DOMAIN keys

\* C21 witness: in the second pass, three goroutines have each written a
\* slot of tmp, two of them for keys with the same digit.
C21_Witness ==
    /\ ScatterOver
    /\ main.pass = 1
    /\ Cardinality({a.slot : a \in TmpWrites}) = 3
    /\ \E a, b \in TmpWrites :
           /\ a.slot # b.slot
           /\ Digit(keys[shared.indices[a.i]], 1) = Digit(keys[shared.indices[b.i]], 1)
    /\ \E a \in TmpWrites : a.cell # a.i

\* the goroutines of `phase` that have been started and have not called
\* wg.Done()
Running(phase) == {slot \in DOMAIN gor : gor[slot].pc = phase}

\* the offsets of the pass under way have been computed
OffsetsComputed == main.pc \in {"offsets", "go scatter", "wait scatter"}

\* a returned call gives what the pass-by-pass definition gives
ParallelRunsAgree ==
    main.pc = "returned" =>
        indices = radixSortUint64KeysParallel(keys, ascending, workers)

\* C22: the phases of a pass of the parallel radix sort are ordered: the
\* offsets are computed only when every histogram goroutine of the pass has
\* finished, and from their complete counts; a scatter goroutine runs only
\* after the offsets of its pass have been computed; a histogram goroutine
\* runs only when no scatter goroutine of the pass before is running; and
\* no goroutine reads a cell of an array that a goroutine of the other
\* phase has written in the same pass.
C22_PhasesOrdered ==
    /\ OffsetsComputed =>
           /\ Running("histogram") = {}
           /\ shared.counts = ShardCounts(keys, shared.indices, main.pass, workers)
    /\ Running("scatter") # {} => OffsetsComputed /\ wg >= Cardinality(Running("scatter"))
    /\ Running("histogram") # {} => Running("scatter") = {}
    /\ main.pc = "pass" => Running("histogram") = {} /\ Running("scatter") = {} /\ wg = 0
    /\ \A a, b \in accesses :
           a.phase # b.phase /\ a.arr = b.arr /\ a.cell = b.cell =>
               a.op = "read" /\ b.op = "read"

\* C22 witness: in the second pass one scatter goroutine has finished and
\* another is in the middle of its shard, after a first pass in which the
\* shards held keys of different digits.
C22_Witness ==
    /\ main.pass = 1
    /\ main.pc = "wait scatter"
    /\ wg = 1
    /\ \E s, t \in DOMAIN gor :
           /\ gor[s].pc = "scatter" /\ gor[s].i > ShardStart(len(keys), workers, s)
           /\ gor[t].pc = "done"
    /\ shared.indices # Identity(len(keys))

----------------------------------------------------------------------------
(* dataframe.go lines 473-562, goroutine by goroutine: the parallel path   *)
(* of aggregateStreaming over the table {g, v} grouped by g.  gor[slot].m  *)
(* is the map m of the goroutine of `slot`; shared.local is the slice      *)
(* local; an *int64State is named by <<slot, k>>, the goroutine that made  *)
(* it and its key, and shared.intStates[k] is the slot of the pointer kept *)
(* for k.  `accesses` records who wrote which map, state and cell of       *)
(* local, and how many goroutines had not yet called wg.Done().            *)

\* the worker counts of the runs of the specification
AggWorkers == {2, 3}

\* cells of the value column v
ParAggVals == {-3, 2}

\* the aggregation kinds of the runs: one that adds to sum, one that does not
ParAggKinds == {"Sum", "Max"}

\* the value column
ParValues == SliceOf(heap, df.series["v"])

\* every goroutine stores its map in local[0]
LocalSlotZero(slot) == 0

\* line 540: local[slot] = m
LocalSlot(slot) == slot

\* the goroutine that runs aggregateStreaming, as the actor of an access
Caller == -1

AggAccess(actor, op, arr, cell) ==
    [actor |-> actor, op |-> op, arr |-> arr, cell |-> cell, live |-> wg]

\* line 473: if rows >= 50000 && workers > 1; lines 474-477: shard, local,
\* wg.Add(workers)
ParAggEntry ==
    /\ main.pc = "entry"
    /\ IF len(ParValues) >= AggParallelMin /\ workers > 1
       THEN /\ shared' = [local |-> Stored([slot \in 0..(workers - 1) |-> EmptyArr]),
                          intStates |-> EmptyArr]
            /\ gor' = [slot \in 0..(workers - 1) |->
                          [pc |-> "none", i |-> 0, e |-> 0, m |-> EmptyArr]]
            /\ wg' = wg + workers
            /\ main' = [main EXCEPT !.pc = "go", !.w = 0]
       ELSE /\ main' = [main EXCEPT !.pc = "serial"]
            /\ UNCHANGED <<shared, gor, wg>>
    /\ UNCHANGED <<pc, workers, ascending, accesses, permVars, radixVars,
                   frameVars, groupVars>>

\* lines 479-484 and 541: one go statement of the loop over w; there is no
\* test for an empty shard
GoAggregate ==
    /\ main.pc = "go"
    /\ LET rows == len(ParValues)
           shard == AggShard(rows, workers)
           w == main.w
           start == w * shard
       IN  /\ gor' = [gor EXCEPT ![w] = [pc |-> "accumulate", i |-> start,
                                         e |-> Min(start + shard, rows),
                                         m |-> EmptyArr]]
           /\ main' = IF w + 1 < workers THEN [main EXCEPT !.w = w + 1]
                      ELSE [main EXCEPT !.pc = "wait"]
    /\ UNCHANGED <<pc, workers, ascending, wg, shared, accesses, permVars,
                   radixVars, frameVars, groupVars>>

\* lines 487-539: one turn of the loop of the goroutine of `slot`
AccumulateStep(slot) ==
    /\ gor[slot].pc = "accumulate"
    /\ gor[slot].i < gor[slot].e
    /\ LET i == gor[slot].i
           k == buildKey128(heap, df, gdf.columns, i)
       IN  /\ gor' = [gor EXCEPT ![slot].i = i + 1,
                                 ![slot].m = AccumulateRow(@, k, ParValues[i], i, aggType)]
           /\ accesses' = accesses \cup
                  {AggAccess(slot, "write", "map", slot),
                   AggAccess(slot, "write", "state", <<slot, k>>)}
    /\ UNCHANGED <<pc, workers, ascending, main, wg, shared, permVars,
                   radixVars, frameVars, groupVars>>

\* line 540: local[slot] = m
StoreLocal(slot) ==
    /\ gor[slot].pc = "accumulate"
    /\ gor[slot].i >= gor[slot].e
    /\ shared' = [shared EXCEPT !.local[LocalSlot(slot)] = gor[slot].m]
    /\ accesses' = accesses \cup {AggAccess(slot, "write", "local", LocalSlot(slot))}
    /\ gor' = [gor EXCEPT ![slot].pc = "stored"]
    /\ UNCHANGED <<pc, workers, ascending, main, wg, permVars, radixVars,
                   frameVars, groupVars>>

\* line 486: defer wg.Done()
AggregateDone(slot) ==
    /\ gor[slot].pc = "stored"
    /\ wg' = wg - 1
    /\ gor' = [gor EXCEPT ![slot].pc = "done"]
    /\ UNCHANGED <<pc, workers, ascending, main, shared, accesses, permVars,
                   radixVars, frameVars, groupVars>>

\* line 543: wg.Wait() returns
AggregateWait ==
    /\ main.pc = "wait"
    /\ WaitReturns(wg)
    /\ main' = [main EXCEPT !.pc = "merge", !.w = 0]
    /\ UNCHANGED <<pc, workers, ascending, wg, gor, shared, accesses, permVars,
                   radixVars, frameVars, groupVars>>

\* lines 547-561 for the map m = local[w]: a key not yet in intStates gets
\* the pointer of m; otherwise the state of m is folded into the state that
\* intStates points to
MergeShard ==
    /\ main.pc = "merge"
    /\ LET w == main.w
           m == shared.local[w]
           old == shared.intStates
           fresh == (DOMAIN m) \ (DOMAIN old)
           folded == (DOMAIN m) \cap (DOMAIN old)
       IN  /\ shared' =
                  [local |-> Stored([slot \in DOMAIN shared.local |->
                       Stored([k \in DOMAIN shared.local[slot] |->
                           IF k \in folded /\ old[k] = slot
                           THEN MergeState(shared.local[slot][k], m[k])
                           ELSE shared.local[slot][k]])]),
                   intStates |-> Stored([k \in (DOMAIN old) \cup fresh |->
                       IF k \in fresh THEN w ELSE old[k]])]
           /\ accesses' = accesses
                  \cup {AggAccess(Caller, "read", "local", w)}
                  \cup {AggAccess(Caller, "read", "state", <<w, k>>) : k \in DOMAIN m}
                  \cup {AggAccess(Caller, "write", "intStates", k) : k \in fresh}
                  \cup {AggAccess(Caller, "write", "state", <<old[k], k>>) : k \in folded}
           /\ main' = IF w + 1 < workers THEN [main EXCEPT !.w = w + 1]
                      ELSE [main EXCEPT !.pc = "merged"]
    /\ UNCHANGED <<pc, workers, ascending, wg, gor, permVars, radixVars,
                   frameVars, groupVars>>

----------------------------------------------------------------------------
(* SpecParallelAgg: one run of the parallel path under every interleaving  *)
(* of its goroutines.                                                      *)

InitParallelAgg ==
    /\ pc = "init"
    /\ \E n \in 0..GroupRows :
           \E g \in Arrays(n, GroupKeys) : \E v \in Arrays(n, ParAggVals) :
               AggTable(g, v)
    /\ heap0 = heap
    /\ xx \in {[b \in {PutUint64(u) : u \in GroupKeys} |-> b[1] % m] : m \in 1..2}
    /\ workers \in AggWorkers
    /\ gdf = [columns |-> <<"g">>, groups |-> NilGroups]
    /\ aggType \in ParAggKinds
    /\ result = NoResult
    /\ column = "v"
    /\ err = "nil"
    /\ ascending = TRUE
    /\ main = [pc |-> "entry", pass |-> 0, w |-> 0]
    /\ wg = 0
    /\ gor = EmptyArr
    /\ shared = EmptyArr
    /\ accesses = {}
    /\ NoRadix
    /\ NoPermute

NextParallelAgg ==
    \/ ParAggEntry
    \/ GoAggregate
    \/ \E slot \in DOMAIN gor : AccumulateStep(slot)
    \/ \E slot \in DOMAIN gor : StoreLocal(slot)
    \/ \E slot \in DOMAIN gor : AggregateDone(slot)
    \/ AggregateWait
    \/ MergeShard

SpecParallelAgg == InitParallelAgg /\ [][NextParallelAgg]_vars

\* the accesses of the shard goroutines
WorkerAccesses == {a \in accesses : a.actor # Caller}

\* the states that intStates points to
MergedStates ==
    [k \in DOMAIN shared.intStates |-> shared.local[shared.intStates[k]][k]]

\* the merged states are those of the shard-by-shard definition
ParallelAggAgrees ==
    main.pc = "merged" =>
        MergedStates = ParallelStates(heap, df, gdf.columns, ParValues, aggType, workers)

\* C23: in the parallel aggregation path every map and every accumulator
\* state written by a shard goroutine is written by that goroutine only,
\* every goroutine writes only its own cell of local, and the merge is done
\* by the calling goroutine and only when every shard goroutine has
\* finished.
C23_ShardsPrivateUntilMerge ==
    /\ \A a \in WorkerAccesses :
           /\ a.arr \in {"map", "local"} => a.cell = a.actor
           /\ a.arr = "state" => a.cell[1] = a.actor
           /\ a.arr # "intStates"
    /\ \A a, b \in WorkerAccesses :
           a.arr = b.arr /\ a.cell = b.cell => a.actor = b.actor
    /\ \A a \in accesses \ WorkerAccesses : a.live = 0
    /\ main.pc \in {"merge", "merged"} =>
           /\ wg = 0
           /\ \A slot \in DOMAIN gor : gor[slot].pc = "done"
           /\ \A slot \in DOMAIN gor : shared.local[slot] = gor[slot].m \/ main.w > 0

\* C23 witness: the merge has folded the state of a later shard into the
\* state made by an earlier one, after the goroutine of the later shard
\* stored its map first.
C23_Witness ==
    /\ main.pc = "merged"
    /\ \E a \in accesses :
           a.actor = Caller /\ a.op = "write" /\ a.arr = "state" /\ a.cell[1] = 0
    /\ Cardinality({a.actor : a \in WorkerAccesses}) >= 2
    /\ aggType = "Sum"

----------------------------------------------------------------------------
(* SpecMerge: the merge loop of the parallel path (dataframe.go lines      *)
(* 545-562) run over the shard maps of a table {g, v} taken in any order.  *)
(* shared.order is the order, shared.merged the states when the loop is    *)
(* over.                                                                   *)

\* the orders in which the w shard maps can be taken
SlotOrders(w) ==
    {o \in [0..(w - 1) -> 0..(w - 1)] : \A i, j \in 0..(w - 1) : o[i] = o[j] => i = j}

\* lines 546-562 with the maps of local taken in the order `order`
RECURSIVE MergeInOrder(_, _, _, _)
MergeInOrder(intStates, local, order, at) ==
    IF at >= len(order) THEN intStates
    ELSE MergeInOrder(MergeMap(intStates, local[order[at]]), local, order, at + 1)

InitMerge ==
    /\ pc = "init"
    /\ \E n \in 0..GroupRows :
           \E g \in Arrays(n, GroupKeys) : \E v \in Arrays(n, AggVals) :
               AggTable(g, v)
    /\ heap0 = heap
    /\ xx \in {[b \in {PutUint64(u) : u \in GroupKeys} |-> b[1] % m] : m \in 1..2}
    /\ workers \in AggWorkers
    /\ gdf = [columns |-> <<"g">>, groups |-> NilGroups]
    /\ aggType \in AggregationTypes
    /\ result = NoResult
    /\ column = "v"
    /\ err = "nil"
    /\ ascending = TRUE
    /\ NoRadix
    /\ NoPermute
    /\ NoPar

MergeShards(order) ==
    /\ pc = "init"
    /\ pc' = "merged"
    /\ shared' = [order |-> order,
                  merged |-> MergeInOrder(EmptyArr,
                                 LocalStates(heap, df, gdf.columns, ParValues,
                                             aggType, workers),
                                 order, 0)]
    /\ UNCHANGED <<workers, ascending, main, wg, gor, accesses, permVars,
                   radixVars, frameVars, groupVars>>

NextMerge == \E order \in SlotOrders(workers) : MergeShards(order)

SpecMerge == InitMerge /\ [][NextMerge]_vars

\* sum, count, min and max of an accumulator
Totals(st) == [sum |-> st.sum, count |-> st.count, min |-> st.min, max |-> st.max]

\* C24: whatever the order in which the shard maps are merged, every key
\* gets the sum, count, min and max that one serial pass over all rows
\* gives it.
C24_MergeOrderIrrelevant ==
    pc = "merged" =>
        LET serial == SerialStates(heap, df, gdf.columns, ParValues, aggType)
        IN  /\ DOMAIN shared.merged = DOMAIN serial
            /\ \A k \in DOMAIN serial : Totals(shared.merged[k]) = Totals(serial[k])

\* C24 witness: the shards were merged last shard first, two of them held
\* rows of the same key with different values, and the sum of the key
\* wrapped around.
C24_Witness ==
    /\ pc = "merged"
    /\ aggType = "Sum"
    /\ shared.order[0] # 0
    /\ \E k \in DOMAIN shared.merged :
           /\ shared.merged[k].count >= 2
           /\ 0 < shared.merged[k].min
           /\ shared.merged[k].min < shared.merged[k].max
           /\ shared.merged[k].sum < 0
           /\ shared.merged[k].rep # 0

----------------------------------------------------------------------------
(* SpecPermuteSteps: inPlacePermuteInt64 statement by statement, for every *)
(* index array with entries in [0, n), bijective or not.  `permuted` holds *)
(* the locals of the run: data, visited, the loop variables i and j, the   *)
(* place `at` in the text, and two counters that are not in the code: the  *)
(* executed swaps and, per position, the executions of visited[j] = true;  *)
(* each counter stops one past the bound the routine is to keep.           *)

\* visited[j] = true is left out
MarkNothing(visited, j) == visited

\* line 12: visited[j] = true
MarkVisited(visited, j) == [visited EXCEPT ![j] = TRUE]

InitPermuteSteps ==
    /\ pc = "run"
    /\ data \in ArraysUpTo(MaxLen, 0..MaxVal)
    /\ idx \in Arrays(len(data), DOMAIN data)
    /\ permuted = [data |-> data,
                   visited |-> [i \in DOMAIN data |-> FALSE],
                   swaps |-> 0,
                   marks |-> [i \in DOMAIN data |-> 0],
                   i |-> 0, j |-> 0, at |-> "outer"]
    /\ keys = EmptyArr
    /\ ascending = TRUE
    /\ workers = 1
    /\ indices = EmptyArr
    /\ NoFrame
    /\ NoGroup
    /\ NoPar

\* lines 6-10: the test of the outer loop, the continue, and j := i
OuterStep ==
    /\ pc = "run"
    /\ permuted.at = "outer"
    /\ permuted.i < len(data)
    /\ permuted' = IF permuted.visited[permuted.i] \/ idx[permuted.i] = permuted.i
                   THEN [permuted EXCEPT !.i = @ + 1]
                   ELSE [permuted EXCEPT !.j = permuted.i, !.at = "inner"]
    /\ UNCHANGED <<pc, data, idx, radixVars, ascending, workers, frameVars,
                   groupVars, parVars>>

\* lines 11-19: one turn of the inner loop
InnerStep ==
    /\ pc = "run"
    /\ permuted.at = "inner"
    /\ LET j == permuted.j
           k == idx[j]
           n == len(data)
       IN  permuted' =
               IF permuted.visited[j]
               THEN [permuted EXCEPT !.at = "outer", !.i = @ + 1]
               ELSE IF k = j
               THEN [permuted EXCEPT !.visited = MarkVisited(@, j),
                                     !.marks[j] = Min(@ + 1, 2),
                                     !.at = "outer", !.i = @ + 1]
               ELSE [permuted EXCEPT !.visited = MarkVisited(@, j),
                                     !.marks[j] = Min(@ + 1, 2),
                                     !.data = SwapCells(@, j, k),
                                     !.swaps = Min(@ + 1, n + 1),
                                     !.j = k]
    /\ UNCHANGED <<pc, data, idx, radixVars, ascending, workers, frameVars,
                   groupVars, parVars>>

\* line 6 with i = len(data), and line 21: the routine returns
PermuteReturn ==
    /\ pc = "run"
    /\ permuted.at = "outer"
    /\ permuted.i >= len(data)
    /\ pc' = "done"
    /\ UNCHANGED <<permuted, data, idx, radixVars, ascending, workers,
                   frameVars, groupVars, parVars>>

NextPermuteSteps == OuterStep \/ InnerStep \/ PermuteReturn

\* the routine runs in one goroutine that is never stopped
SpecPermuteSteps ==
    InitPermuteSteps /\ [][NextPermuteSteps]_vars /\ WF_vars(NextPermuteSteps)

\* the run statement by statement ends as the definition by recursion does
StepsAgree ==
    pc = "done" =>
        /\ permuted.data = inPlacePermuteRun(data, idx).data
        /\ permuted.visited = inPlacePermuteRun(data, idx).visited
        /\ permuted.swaps = inPlacePermuteRun(data, idx).swaps

\* what the routine keeps at every step
PermuteBounds ==
    /\ \A p \in DOMAIN data : permuted.marks[p] <= 1
    /\ permuted.swaps <= len(data)
    /\ DOMAIN permuted.visited = DOMAIN data
    /\ DOMAIN permuted.data = DOMAIN data

\* C25: for every index array with entries in [0, n), bijective or not, the
\* in-place permutation returns; on the way every position is marked
\* visited at most once, at most n swaps are made, and the only storage
\* besides data is the visited array of n cells.
C25_PermuteTerminates == <>(pc = "done") /\ []PermuteBounds

\* C25 witness: the routine has returned for an index array that is not a
\* bijection, after entering the inner loop twice and swapping twice.
C25_Witness ==
    /\ pc = "done"
    /\ ~IsBijection(idx)
    /\ permuted.swaps = 2
    /\ \E p, q \in DOMAIN data : p + 1 < q /\ permuted.marks[p] = 1 /\ permuted.marks[q] = 1
                                 /\ idx[p] # p /\ idx[q] = idx[p]

----------------------------------------------------------------------------
(* SpecDerived: a caller that holds a table t1 = {x, row} (df), derives t2 *)
(* from it with Select or Head (result), and sorts t2 with SortByColumn    *)
(* while it still holds t1.  heap0 is the heap before the sort.            *)

InitDerived ==
    /\ pc = "init"
    /\ \E dt \in DataTypes : \E cells \in ArraysUpTo(MaxLen, CellVals(dt)) :
           SortTable(dt, cells)
    /\ heap0 = heap
    /\ workers = 1
    /\ column = ""
    /\ ascending = TRUE
    /\ err = "nil"
    /\ keys = EmptyArr
    /\ indices = EmptyArr
    /\ NoPermute
    /\ NoGroup
    /\ NoPar

\* t2.SortByColumn(col, asc) (lines 175-240) on the table a Select or Head
\* call has returned
SortDerived(col, asc) ==
    /\ pc = "returned"
    /\ err = "nil"
    /\ col \in DOMAIN result.series
    /\ LET s == result.series[col]
           d == SliceOf(heap, s)
       IN  /\ keys' = IF s.DataType \in {"Int64", "Float64"}
                      THEN SortKeys(s.DataType, d) ELSE EmptyArr
           /\ \E ind \in SortIndices(s.DataType, asc, d, workers) :
                 /\ indices' = ind
                 /\ IF \E nm \in DOMAIN result.series :
                          PermutePanics(SliceOf(heap, result.series[nm]), ind)
                    THEN /\ err' = Panicked
                         /\ heap' = heap
                    ELSE /\ err' = "nil"
                         /\ heap' = PermuteColumns(heap, result,
                                                   DOMAIN result.series, ind)
    /\ column' = col
    /\ ascending' = asc
    /\ pc' = "done"
    /\ UNCHANGED <<heap0, df, workers, permVars, groupVars>>
    /\ UNCHANGED parVars

\* the column lists of the Select calls
DerivedLists == {<<"x">>, <<"row">>, <<"x", "row">>}

NextDerived ==
    \/ \E columns \in DerivedLists : Select(columns)
    \/ \E n \in 0..(MaxLen + 1) : DataFrameHead(n)
    \/ \E col \in ColumnNames : \E asc \in BOOLEAN : SortDerived(col, asc)

SpecDerived == InitDerived /\ [][NextDerived]_vars

\* the sort of t2 has returned
DerivedSorted == pc = "done" /\ err = "nil"

\* t1 holds the complete rows it held before the sort, in some order
SourceRowsKept ==
    \E p \in IndexPermutations(df.length) :
        \A i \in DOMAIN p : RowAt(heap, df, i) = RowAt(heap0, df, p[i])

\* C26: after t2 = Select(cols) or t2 = Head(n) on a table t1, a
\* SortByColumn on t2 leaves t1 with the multiset of complete rows it had
\* before the sort.
C26_SortOfDerivedKeepsSource == DerivedSorted => SourceRowsKept

\* C26 for a t2 that has every column of t1 (Head, or Select of all
\* columns): the sort rearranges every column of t1 alike
C26_SortOfFullWidthDerivedKeepsSource ==
    (DerivedSorted /\ DOMAIN result.series = DOMAIN df.series) => SourceRowsKept

\* a sort of a t2 that has every column of t1 has moved rows of t1
C26_FullWidthWitness ==
    /\ DerivedSorted
    /\ DOMAIN result.series = DOMAIN df.series
    /\ df.length = 3
    /\ RowAt(heap, df, 0) # RowAt(heap0, df, 0)

----------------------------------------------------------------------------
(* bridge.go: the exported functions over the handle table.  `shared` is   *)
(* the state of the bridge: handles (id -> Handle), nextHandle, and maps,  *)
(* the Go maps name -> *Series that handles and tables refer to by number  *)
(* (a Series is kept as its length, which is all the bridge and types.New  *)
(* look at).  A types.DataFrame is [Series, Length, Grouped, Key]; its     *)
(* fields are never assigned after it is built.  `main` is the last call:  *)
(* its name, handle argument and return value, and what the caller could   *)
(* see before it.  `accesses` holds the ids issued so far and those of     *)
(* them that DeleteDataFrame was called with.                              *)

\* handles created in a run
MaxHandles == 2

\* calls of exported functions in a run
MaxCalls == 6

BridgeNames == {"a", "b"}

BridgeLengths == {1, 2}

\* dtype arguments: int64, and a code AddSeries does not know
BridgeDtypes == {0, 3}

\* handle arguments: the last is never issued
HandleIds == 1..(MaxHandles + 1)

\* a new Go map with the cells of m, and its number
NewMap(maps, m) == [maps |-> maps @@ (len(maps) :> m), id |-> len(maps)]

\* part_002 lines 95-125: types.New over the map numbered id, whose cells
\* are cols; the returned table refers to the map it was given
TypesNewOver(id, cols) ==
    IF DOMAIN cols = {} THEN [err |-> "nil", fresh |-> TRUE, Length |-> 0]
    ELSE IF \E a, b \in DOMAIN cols : cols[a] # cols[b]
    THEN [err |-> "length mismatch", fresh |-> FALSE, Length |-> 0]
    ELSE [err |-> "nil", fresh |-> FALSE,
          Length |-> cols[CHOOSE nm \in DOMAIN cols : TRUE]]

\* a table over a map of its own with the cells `cols`
TableOver(maps, cols, length, grouped, key) ==
    LET made == NewMap(maps, cols)
    IN  [maps |-> made.maps,
         df |-> [Series |-> made.id, Length |-> length, Grouped |-> grouped,
                 Key |-> key]]

\* the smallest positive id that no live handle has
LowestFreeId(b) ==
    CHOOSE id \in 1..(Cardinality(DOMAIN b.handles) + 1) :
        /\ id \notin DOMAIN b.handles
        /\ \A lower \in 1..(id - 1) : lower \in DOMAIN b.handles

\* line 45: id := nextHandle
IssuedId(b) == b.nextHandle

\* lines 40-49: newHandleFrom(df)
newHandleFrom(b, tbl) ==
    LET fresh == NewMap(b.maps, b.maps[tbl.Series])
    IN  [b EXCEPT !.maps = fresh.maps,
                  !.handles = (IssuedId(b) :> [df |-> tbl, series |-> fresh.id]) @@ @,
                  !.nextHandle = @ + 1]

\* GetShape (lines 92-101): rows and cols of a live handle
GetShape(b, h) ==
    [rows |-> b.handles[h].df.Length,
     cols |-> Cardinality(DOMAIN b.maps[b.handles[h].df.Series])]

\* what GetShape, GetColumn and GetSeries show of a live handle: the shape
\* and every column with its length
HandleView(b, h) ==
    [shape |-> GetShape(b, h), columns |-> b.maps[b.handles[h].df.Series]]

NoView == [shape |-> [rows |-> 0, cols |-> 0], columns |-> EmptyArr]

ViewOf(b, h) == IF h \in DOMAIN b.handles THEN HandleView(b, h) ELSE NoView

\* the record of a call
Call(op, h, ret, matching) ==
    [pc |-> op, h |-> h, ret |-> ret, matching |-> matching,
     calls |-> main.calls + 1,
     live |-> h \in DOMAIN shared.handles,
     before |-> ViewOf(shared, h),
     views0 |-> [g \in DOMAIN shared.handles |-> HandleView(shared, g)],
     next0 |-> shared.nextHandle,
     issued0 |-> accesses.issued]

InitBridge ==
    /\ pc = "init"
    /\ shared = [handles |-> EmptyArr, nextHandle |-> 1, maps |-> EmptyArr]
    /\ main = [pc |-> "none", h |-> 0, ret |-> 0, matching |-> FALSE, calls |-> 0,
               live |-> FALSE, before |-> NoView, views0 |-> EmptyArr,
               next0 |-> 1, issued0 |-> {}]
    /\ accesses = [issued |-> {}, released |-> {}]
    /\ wg = 0
    /\ gor = EmptyArr
    /\ workers = 1
    /\ ascending = TRUE
    /\ NoRadix
    /\ NoPermute
    /\ NoFrame
    /\ NoGroup

BridgeUnchanged ==
    UNCHANGED <<pc, wg, gor, workers, ascending, radixVars, permVars,
                frameVars, groupVars>>

\* the process has not been ended by a panic, and the run has calls left
BridgeRuns == main.pc # Panicked /\ main.calls < MaxCalls

\* NewDataFrame (lines 52-58)
NewDataFrame ==
    /\ BridgeRuns
    /\ shared.nextHandle <= MaxHandles
    /\ LET made == TableOver(shared.maps, EmptyArr, 0, FALSE, "")
       IN  shared' = newHandleFrom([shared EXCEPT !.maps = made.maps], made.df)
    /\ main' = Call("NewDataFrame", 0, IssuedId(shared), FALSE)
    /\ accesses' = [accesses EXCEPT !.issued = @ \cup {IssuedId(shared)}]
    /\ BridgeUnchanged

\* AddSeries (lines 61-89): h.series[goName] = s, then types.New(h.series)
AddSeries(h, name, length, dtype) ==
    /\ BridgeRuns
    /\ LET matching == /\ h \in DOMAIN shared.handles
                       /\ dtype = 0
                       /\ \/ GetShape(shared, h).cols = 0
                          \/ GetShape(shared, h).rows = length
       IN  IF h \notin DOMAIN shared.handles \/ dtype # 0
           THEN /\ main' = Call("AddSeries", h, -1, matching)
                /\ UNCHANGED shared
           ELSE LET id == shared.handles[h].series
                    cols == (name :> length) @@ shared.maps[id]
                    made == TypesNewOver(id, cols)
                    stored == [shared EXCEPT !.maps[id] = cols]
                IN  IF made.err # "nil"
                    THEN /\ main' = Call("AddSeries", h, -1, matching)
                         /\ shared' = stored
                    ELSE /\ main' = Call("AddSeries", h, 0, matching)
                         /\ shared' = [stored EXCEPT !.handles[h].df =
                                [Series |-> id, Length |-> made.Length,
                                 Grouped |-> FALSE, Key |-> ""]]
    /\ UNCHANGED accesses
    /\ BridgeUnchanged

\* DeleteDataFrame (line 104): delete(handles, hID)
DeleteDataFrame(h) ==
    /\ BridgeRuns
    /\ shared' = [shared EXCEPT !.handles =
                      [g \in (DOMAIN shared.handles) \ {h} |-> shared.handles[g]]]
    /\ main' = Call("DeleteDataFrame", h, 0, FALSE)
    /\ accesses' = [accesses EXCEPT !.released = @ \cup ({h} \cap accesses.issued)]
    /\ BridgeUnchanged

\* the numbers of groups a column of n cells can have
GroupCounts(n) == IF n = 0 THEN {0} ELSE 1..n

\* a column of the table is shorter than the rows an operation reads
ShortColumn(cols, n) == \E nm \in DOMAIN cols : cols[nm] < n

LibError == [kind |-> "error"]

LibPanic == [kind |-> "panic"]

LibTable(cols, length, grouped, key) ==
    [kind |-> "table", cols |-> cols, Length |-> length, Grouped |-> grouped,
     Key |-> key]

\* the columns `cols` each cut or filled to n cells, as types.New gets them
AllOfLength(cols, n) ==
    LibTable([nm \in DOMAIN cols |-> n],
             IF DOMAIN cols = {} THEN 0 ELSE n, FALSE, "")

\* what the call of the types package made by the exported function `op`
\* can do on the table tbl with cells cols: part_002 Head (148-171),
\* SortByColumn (591-690), SortByIndex (693-756), GroupBy (185-265) with one
\* column, Aggregate (440-588) after it
LibOutcomes(op, tbl, cols, arg) ==
    CASE op = "Head" ->
            LET n == IF arg > tbl.Length THEN tbl.Length ELSE arg
            IN  IF DOMAIN cols # {} /\ (n < 0 \/ ShortColumn(cols, n))
                THEN {LibPanic} ELSE {AllOfLength(cols, n)}
      [] op = "SortByIndex" ->
            IF ShortColumn(cols, tbl.Length)
            THEN {LibPanic} ELSE {AllOfLength(cols, tbl.Length)}
      [] op = "SortByColumn" ->
            IF arg \notin DOMAIN cols THEN {LibError}
            ELSE IF ShortColumn(cols, tbl.Length)
            THEN {LibPanic} ELSE {AllOfLength(cols, tbl.Length)}
      [] op = "GroupBy" ->
            IF arg \notin DOMAIN cols THEN {LibError}
            ELSE {LibTable([cols EXCEPT ![arg] = g], tbl.Length, TRUE, arg) :
                     g \in GroupCounts(cols[arg])}
      [] op = "Aggregate" ->
            IF arg \notin DOMAIN cols \/ ~tbl.Grouped THEN {LibError}
            ELSE IF cols[arg] < cols[tbl.Key] THEN {LibPanic}
            ELSE {LibTable([nm \in {tbl.Key, arg} |-> cols[tbl.Key]],
                           cols[tbl.Key], FALSE, "")}

\* SortByColumn, SortByIndex, GroupBy, Aggregate and Head (lines 107-173):
\* the handle is looked up, the table operation is called, and its table
\* is registered with newHandleFrom
Derive(op, h, arg) ==
    /\ BridgeRuns
    /\ h \in DOMAIN shared.handles => shared.nextHandle <= MaxHandles
    /\ IF h \notin DOMAIN shared.handles
       THEN /\ main' = Call(op, h, -1, FALSE)
            /\ UNCHANGED <<shared, accesses>>
       ELSE LET tbl == shared.handles[h].df
            IN  \E out \in LibOutcomes(op, tbl, shared.maps[tbl.Series], arg) :
                    CASE out.kind = "panic" ->
                            /\ main' = [Call(op, h, -1, FALSE) EXCEPT !.pc = Panicked]
                            /\ UNCHANGED <<shared, accesses>>
                      [] out.kind = "error" ->
                            /\ main' = Call(op, h, -1, FALSE)
                            /\ UNCHANGED <<shared, accesses>>
                      [] out.kind = "table" ->
                            LET made == TableOver(shared.maps, out.cols, out.Length,
                                                  out.Grouped, out.Key)
                            IN  /\ shared' = newHandleFrom(
                                       [shared EXCEPT !.maps = made.maps], made.df)
                                /\ main' = Call(op, h, IssuedId(shared), FALSE)
                                /\ accesses' = [accesses EXCEPT !.issued =
                                                    @ \cup {IssuedId(shared)}]
    /\ BridgeUnchanged

NextBridge ==
    \/ NewDataFrame
    \/ \E h \in HandleIds : \E name \in BridgeNames :
           \E length \in BridgeLengths : \E dtype \in BridgeDtypes :
               AddSeries(h, name, length, dtype)
    \/ \E h \in HandleIds : DeleteDataFrame(h)
    \/ \E h \in HandleIds : \E n \in (-1)..2 : Derive("Head", h, n)
    \/ \E h \in HandleIds : Derive("SortByIndex", h, 0)
    \/ \E h \in HandleIds : \E col \in BridgeNames : Derive("SortByColumn", h, col)
    \/ \E h \in HandleIds : \E col \in BridgeNames : Derive("GroupBy", h, col)
    \/ \E h \in HandleIds : \E col \in BridgeNames : Derive("Aggregate", h, col)

SpecBridge == InitBridge /\ [][NextBridge]_vars

\* the last call was an AddSeries on a live handle with a known dtype
\* that returned -1: the length was refused
LengthRejected ==
    main.pc = "AddSeries" /\ main.ret = -1 /\ main.live /\ ~main.matching

\* every column the handle shows has the row count GetShape reports
ViewAligned(v) == \A nm \in DOMAIN v.columns : v.columns[nm] = v.shape.rows

\* C27, first part: an AddSeries refused for its length leaves what the
\* handle shows as it was, every column of the row count GetShape reports.
C27_RejectedLeavesView ==
    LengthRejected =>
        /\ HandleView(shared, main.h) = main.before
        /\ ViewAligned(HandleView(shared, main.h))

\* C27, second part: an AddSeries with a known dtype on a live handle whose
\* length is the row count the handle reports (or whose table has no
\* column) returns 0.
C27_MatchingSucceeds ==
    (main.pc = "AddSeries" /\ main.matching) => main.ret = 0

\* C27: an AddSeries call rejected because the length of the new column
\* differs from the row count of the table leaves the handle as before the
\* call (the columns it had, each of the row count GetShape reports), and a
\* later AddSeries with a matching length on the handle succeeds.
C27_RejectedAddSeriesLeavesHandle ==
    C27_RejectedLeavesView /\ C27_MatchingSucceeds

\* the exported functions that return a handle
HandleMakers == {"NewDataFrame", "SortByColumn", "SortByIndex", "GroupBy", "Aggregate", "Head"}

\* the last call returned a handle
HandleReturned == main.pc \in HandleMakers /\ main.ret # -1

\* C28: every handle a call returns is positive and was never issued
\* before, released or not; every call on a handle that DeleteDataFrame was
\* called with returns -1 and makes no handle; and DeleteDataFrame(h)
\* leaves every other live handle live and showing the table it showed.
C28_HandleLifecycle ==
    /\ HandleReturned =>
           /\ main.ret > 0
           /\ main.ret \notin main.issued0
           /\ main.ret \in DOMAIN shared.handles
    /\ accesses.released \cap DOMAIN shared.handles = {}
    /\ (main.pc \in (HandleMakers \cup {"AddSeries"}) \ {"NewDataFrame"}
            /\ main.h \in accesses.released) =>
           /\ main.ret = -1
           /\ shared.nextHandle = main.next0
           /\ DOMAIN shared.handles = DOMAIN main.views0
    /\ main.pc = "DeleteDataFrame" =>
           \A g \in (DOMAIN main.views0) \ {main.h} :
               /\ g \in DOMAIN shared.handles
               /\ HandleView(shared, g) = main.views0[g]

\* C28 witness: a table with a column was sorted into a new handle, its
\* handle was deleted, and a Head on the deleted handle has returned -1
\* while the derived handle is live and shows its column.
C28_Witness ==
    /\ main.pc = "Head"
    /\ main.h \in accesses.released
    /\ main.ret = -1
    /\ \E g \in DOMAIN shared.handles :
           /\ g > main.h
           /\ main.h \in accesses.issued
           /\ HandleView(shared, g).shape.cols = 1
           /\ HandleView(shared, g).shape.rows = 2

----------------------------------------------------------------------------
(* The aggregates of the streaming path of package types, checked in       *)
(* SpecTypes against the member rows that GroupBy recorded.                *)

\* Sum, Mean, Count, Min or Max of the cells of `values` at the rows `rows`
MemberAggregate(values, rows, kind) ==
    LET members == Stored([i \in DOMAIN rows |-> values[rows[i]]])
        state == StreamingStates([i \in DOMAIN rows |-> 0], members, len(rows))
    IN  StreamingValue(state[0], kind)

\* Aggregate has returned a table for a table that GroupBy made and whose
\* aggregated column is not the grouping column and has all the rows
StreamedFromGroups ==
    /\ pc = "returned"
    /\ err = "nil"
    /\ aggType # ""
    /\ ~NotGrouped(df)
    /\ column # df.GroupColumns[1]
    /\ \A s \in DOMAIN df.GroupIndices.m :
           \A i \in DOMAIN df.GroupIndices.m[s] :
               df.GroupIndices.m[s][i] < df.Series[column].Length

\* C29: on the path GroupBy on one int64 column, then Aggregate on an
\* int64 column, the result has one row per group, and the aggregate of a
\* row is the Sum, Mean, Count, Min or Max over all member rows of the
\* group of its key.
C29_AggregatesOverMembers ==
    StreamedFromGroups =>
        LET ks == SliceOf(heap, result.Series[df.GroupColumns[1]])
            out == SliceOf(heap, result.Series[column])
            values == SliceOf(heap, df.Series[column])
        IN  /\ {FormatInt(ks[r]) : r \in DOMAIN ks} = DOMAIN df.GroupIndices.m
            /\ len(ks) = Cardinality(DOMAIN df.GroupIndices.m)
            /\ \A r \in DOMAIN ks :
                   out[r] = MemberAggregate(values, df.GroupIndices.m[FormatInt(ks[r])],
                                            aggType)

\* C29 with Sum and the first scenario of the spec: g = 1, 1, 2, 2, 2 and
\* v = 10, 20, 30, 40, 50 give the rows {1, 30} and {2, 120}
C29_ScenarioSum ==
    (StreamedFromGroups /\ aggType = "Sum"
        /\ SliceOf(heap, df.Series[column]) = ScenarioV
        /\ DOMAIN df.GroupIndices.m = {FormatInt(1), FormatInt(2)}
        /\ df.GroupIndices.m[FormatInt(1)] = SeqToArr(<<0, 1>>)) =>
        /\ SliceOf(heap, result.Series[df.GroupColumns[1]]) = SeqToArr(<<1, 2>>)
        /\ SliceOf(heap, result.Series[column]) = SeqToArr(<<30, 120>>)

----------------------------------------------------------------------------
(* Package types, grouping by two columns: GroupBy's generic path with     *)
(* buildGroupedDataFrameMulti (part_002 lines 232-265, 380-437) and the    *)
(* per-group path of Aggregate (lines 475-588), over tables {a, b, v} of   *)
(* int64 columns.  A range over the map `groups` visits the keys in any    *)
(* order.                                                                  *)

\* the byte of a character of a group key
KeyByte(c) ==
    CASE c = "-" -> 45
      [] c = "_" -> 95
      [] OTHER -> 47 + (CHOOSE d \in 1..10 : DigitChars[d] = c)

\* the bytes of a group key
KeyBytes(s) == [i \in 1..Len(s) |-> KeyByte(s[i])]

\* lines 240-259: the key of row i, FormatInt of the cell and '_' for every
\* grouping column
RECURSIVE MultiKey(_, _, _, _)
MultiKey(h, frame, columns, i) ==
    IF columns = <<>> THEN <<>>
    ELSE FormatInt(h[frame.Series[Head(columns)].Data][i]) \o <<"_">>
             \o MultiKey(h, frame, Tail(columns), i)

\* lines 236-262: groups[key] = append(groups[key], i) for i < df.Length
MultiGroups(h, frame, columns) ==
    LET rows == 0..(frame.Length - 1)
    IN  [s \in {MultiKey(h, frame, columns, i) : i \in rows} |->
            SortedArr({i \in rows : MultiKey(h, frame, columns, i) = s})]

\* buildGroupedDataFrameMulti (lines 380-437); order is the order in which
\* the range of line 401 visits the keys of groups
buildGroupedDataFrameMulti(h, frame, columns, groups, order) ==
    LET names == SeqRange(columns)
        fresh == NewArrays(h, [nm \in names |-> "Int64"],
                     [nm \in names |->
                         Stored([i \in DOMAIN order |->
                             h[frame.Series[nm].Data][groups[order[i]][0]]])])
    IN  [heap |-> fresh.heap,
         table |-> [Series |-> [nm \in DOMAIN frame.Series |->
                                   IF nm \in names THEN fresh.series[nm]
                                   ELSE frame.Series[nm]],
                    Length |-> len(order),
                    GroupIndices |-> [isNil |-> FALSE, m |-> groups],
                    GroupColumns |-> columns]]

\* GroupBy(columns) of package types with two grouping columns
TypesGroupByMulti(columns) ==
    /\ pc = "init"
    /\ Len(columns) >= 2
    /\ IF \E c \in 1..Len(columns) : columns[c] \notin DOMAIN df.Series
       THEN /\ err' = "column not found"
            /\ result' = NilTable
            /\ heap' = heap
       ELSE LET groups == MultiGroups(heap, df, columns)
            IN  \E order \in KeyOrders(groups) :
                    LET made == buildGroupedDataFrameMulti(heap, df, columns,
                                                           groups, order)
                    IN  /\ err' = "nil"
                        /\ result' = made.table
                        /\ heap' = made.heap
    /\ pc' = "returned"
    /\ column' = ""
    /\ aggType' = ""
    /\ UNCHANGED <<heap0, df, xx, gdf, ascending, workers, radixVars, permVars>>
    /\ UNCHANGED parVars

\* lines 485-489: sort.Strings(keys)
KeysSorted(m) ==
    CHOOSE o \in KeyOrders(m) :
        \A i, j \in DOMAIN o : i < j => StrLess(KeyBytes(o[i]), KeyBytes(o[j]))

\* lines 497-529: the aggregate of the cells of data at the rows idxs
GroupValue(d, idxs, kind) ==
    LET cells == Stored([i \in DOMAIN idxs |-> d[idxs[i]]])
        state == StreamingStates([i \in DOMAIN idxs |-> 0], cells, len(idxs))
    IN  CASE kind = "Sum" -> state[0].sum
          [] kind = "Mean" -> TruncDiv(state[0].sum, len(idxs))
          [] kind = "Count" -> len(idxs)
          [] kind = "Min" -> state[0].min
          [] kind = "Max" -> state[0].max

\* Aggregate(column, aggType) of package types on a table grouped by two
\* columns (lines 440-452, 475-588); data[id] panics when a member row is
\* not a row of the column
TypesAggregateMulti(col, kind) ==
    /\ pc = "init"
    /\ column' = col
    /\ aggType' = kind
    /\ IF col \notin DOMAIN df.Series
       THEN /\ err' = "column not found"
            /\ result' = NilTable
            /\ heap' = heap
       ELSE IF NotGrouped(df)
       THEN /\ err' = "DataFrame is not grouped"
            /\ result' = NilTable
            /\ heap' = heap
       ELSE LET d == SliceOf(heap, df.Series[col])
                groups == df.GroupIndices.m
                ks == KeysSorted(groups)
            IN  IF \E s \in DOMAIN groups : \E i \in DOMAIN groups[s] :
                       groups[s][i] \notin DOMAIN d
                THEN /\ err' = Panicked
                     /\ result' = NilTable
                     /\ heap' = heap
                ELSE LET newData == Stored([i \in DOMAIN ks |->
                                        GroupValue(d, groups[ks[i]], kind)])
                         fresh == NewArrays(heap, [nm \in {col} |-> "Int64"],
                                            [nm \in {col} |-> newData])
                         kept == {nm \in DOMAIN df.Series :
                                     df.Series[nm].Length = df.Length} \cup {col}
                     IN  /\ err' = "nil"
                         /\ result' = TypesNew([nm \in kept |->
                                IF nm = col THEN fresh.series[col]
                                ELSE df.Series[nm]])
                         /\ heap' = fresh.heap
    /\ pc' = "returned"
    /\ UNCHANGED <<heap0, df, xx, gdf, ascending, workers, radixVars, permVars>>
    /\ UNCHANGED parVars

----------------------------------------------------------------------------
(* SpecTypesMulti: a table {a, b, v}, grouped by a, b and aggregated.      *)

MultiColumns == {"a", "b", "v"}

InitTypesMulti ==
    /\ pc = "init"
    /\ \E n \in 0..GroupRows :
       \E a \in Arrays(n, GroupKeys) : \E b \in Arrays(n, GroupKeys) :
       \E v \in Arrays(n, TypesVals) :
           /\ heap = [x \in 0..2 |-> IF x = 0 THEN a ELSE IF x = 1 THEN b ELSE v]
           /\ df = TypesNew([nm \in MultiColumns |->
                                NewSeries("Int64",
                                          IF nm = "a" THEN 0 ELSE IF nm = "b" THEN 1 ELSE 2,
                                          n)])
    /\ heap0 = heap
    /\ result = NilTable
    /\ err = "nil"
    /\ column = ""
    /\ aggType = ""
    /\ xx = EmptyArr
    /\ gdf = [columns |-> <<>>, groups |-> NilGroups]
    /\ ascending = TRUE
    /\ workers = 1
    /\ NoRadix
    /\ NoPermute
    /\ NoPar

NextTypesMulti ==
    \/ \E columns \in {<<"a", "b">>, <<"a", "missing">>} : TypesGroupByMulti(columns)
    \/ \E col \in {"v", "a", "missing"} :
           \E kind \in AggregationTypes : TypesAggregateMulti(col, kind)
    \/ TypesContinue

SpecTypesMulti == InitTypesMulti /\ [][NextTypesMulti]_vars

\* Aggregate has returned a table for a table grouped by a and b whose
\* aggregated column v has all the rows
AggregatedFromGroups ==
    /\ pc = "returned"
    /\ err = "nil"
    /\ aggType # ""
    /\ column = "v"
    /\ ~NotGrouped(df)
    /\ df.GroupColumns = <<"a", "b">>

\* C30: on the path GroupBy on two columns, then Aggregate, every row of
\* the result holds the grouping values of one group and the aggregate over
\* the member rows of that same group, whatever the order in which the
\* group map was visited.
C30_RowsPairGroupWithItsAggregate ==
    AggregatedFromGroups =>
        LET groups == df.GroupIndices.m
            values == SliceOf(heap, df.Series["v"])
            out == SliceOf(heap, result.Series["v"])
        IN  /\ result.Length = Cardinality(DOMAIN groups)
            /\ \A r \in 0..(result.Length - 1) :
                   LET key == MultiKey(heap, result, <<"a", "b">>, r)
                   IN  /\ key \in DOMAIN groups
                       /\ out[r] = MemberAggregate(values, groups[key], aggType)

\* C30 when the range over the group map at GroupBy visited the keys in
\* ascending order of their strings
C30_PairedWhenMapOrderSorted ==
    (AggregatedFromGroups
        /\ \A r \in 0..(df.Length - 1) :
               MultiKey(heap, df, <<"a", "b">>, r) = KeysSorted(df.GroupIndices.m)[r])
      => C30_RowsPairGroupWithItsAggregate

\* an Aggregate over two groups with different sums whose keys were visited
\* in ascending order at GroupBy
C30_SortedOrderWitness ==
    /\ AggregatedFromGroups
    /\ aggType = "Sum"
    /\ df.Length = 2
    /\ MultiKey(heap, df, <<"a", "b">>, 0) = KeysSorted(df.GroupIndices.m)[0]
    /\ SliceOf(heap, result.Series["v"])[0] # SliceOf(heap, result.Series["v"])[1]

----------------------------------------------------------------------------
(* SpecEncode: the int64 sort key on every pair of int64 values.           *)

InitEncode ==
    /\ pc = "init"
    /\ data \in Arrays(2, Int64Vals)
    /\ keys = EmptyArr
    /\ idx = EmptyArr
    /\ permuted = [data |-> EmptyArr, visited |-> EmptyArr, swaps |-> 0]
    /\ indices = EmptyArr
    /\ ascending = TRUE
    /\ workers = 1
    /\ NoFrame
    /\ NoGroup
    /\ NoPar

\* lines 190-193: keys := make([]uint64, len(data)); keys[i] = ...
EncodeInt64Keys ==
    /\ pc = "init"
    /\ keys' = SortKeys("Int64", data)
    /\ pc' = "done"
    /\ UNCHANGED <<data, idx, permuted, indices, ascending, workers, frameVars, groupVars>>
    /\ UNCHANGED parVars

NextEncode == EncodeInt64Keys

SpecEncode == InitEncode /\ [][NextEncode]_vars

\* C10: the signed-integer sort key is strictly monotonic: a < b implies
\* encode(a) < encode(b) in unsigned order, over the whole width.
C10_Int64KeyMonotonic ==
    (pc = "done" /\ data[0] < data[1]) =>
        /\ keys[0] < keys[1]
        /\ keys[0] \in 0..AllOnes /\ keys[1] \in 0..AllOnes

\* C10 witness: a negative and a non-negative value have been encoded.
C10_Witness ==
    /\ pc = "done"
    /\ data[0] < 0 /\ data[1] >= 0
    /\ keys[0] < keys[1]

----------------------------------------------------------------------------
(* SpecEncodeFloat: the float64 sort key on every pair of bit patterns; a   *)
(* pattern is a sign bit on top of KeyBits - 1 magnitude bits and stands    *)
(* for a finite number.                                                     *)

\* math.Float64bits(v) of the finite numbers
Float64Bits == 0..AllOnes

InitEncodeFloat ==
    /\ pc = "init"
    /\ data \in Arrays(2, Float64Bits)
    /\ keys = EmptyArr
    /\ idx = EmptyArr
    /\ permuted = [data |-> EmptyArr, visited |-> EmptyArr, swaps |-> 0]
    /\ indices = EmptyArr
    /\ ascending = TRUE
    /\ workers = 1
    /\ NoFrame
    /\ NoGroup
    /\ NoPar

\* lines 196-204: keys := make([]uint64, len(data)); keys[i] = ...
EncodeFloat64Keys ==
    /\ pc = "init"
    /\ keys' = SortKeys("Float64", data)
    /\ pc' = "done"
    /\ UNCHANGED <<data, idx, permuted, indices, ascending, workers, frameVars, groupVars>>
    /\ UNCHANGED parVars

NextEncodeFloat == EncodeFloat64Keys

SpecEncodeFloat == InitEncodeFloat /\ [][NextEncodeFloat]_vars

\* C11: the float64 sort key is strictly monotonic on finite values: a < b
\* implies encode(a) < encode(b) in unsigned order, also when a is negative
\* and b is not.
C11_Float64KeyMonotonic ==
    (pc = "done" /\ FloatValue(data[0]) < FloatValue(data[1])) =>
        /\ keys[0] < keys[1]
        /\ keys[0] \in 0..AllOnes /\ keys[1] \in 0..AllOnes

\* C11 witness: a negative number and a positive one have been encoded.
C11_Witness ==
    /\ pc = "done"
    /\ data[0] > SignBit /\ data[1] < SignBit /\ data[1] > 0
    /\ keys[0] < keys[1]

----------------------------------------------------------------------------
(* SpecPermute: the permutation engine on every small array and every      *)
(* index array with entries in [0, n).                                     *)

InitPermute ==
    /\ pc = "init"
    /\ data \in ArraysUpTo(MaxLen, 0..MaxVal)
    /\ idx \in Arrays(len(data), DOMAIN data)
    /\ permuted = [data |-> EmptyArr, visited |-> EmptyArr, swaps |-> 0]
    /\ keys = EmptyArr
    /\ ascending = TRUE
    /\ workers = 1
    /\ indices = EmptyArr
    /\ NoFrame
    /\ NoGroup
    /\ NoPar

Permute ==
    /\ pc = "init"
    /\ permuted' = inPlacePermuteRun(data, idx)
    /\ pc' = "done"
    /\ UNCHANGED <<data, idx, keys, ascending, workers, indices>>
    /\ UNCHANGED <<frameVars, groupVars>>
    /\ UNCHANGED parVars

NextPermute == Permute

SpecPermute == InitPermute /\ [][NextPermute]_vars

\* C2: for every array `data` and every bijective index array, after the
\* in-place permutation routine returns, cell i holds the original
\* data[idx[i]], for every i.
C2_PermuteMovesSourceToSlot ==
    (pc = "done" /\ IsBijection(idx)) =>
        \A i \in DOMAIN data : permuted.data[i] = data[idx[i]]

====
